---------------------------- MODULE Spec2Model ----------------------------
(***************************************************************************)
(* Model of the client utilities of the portfolio site:                    *)
(*   - ContentPersistence (lib/content-persistence.ts), the localStorage   *)
(*     autosave / backup helper,                                           *)
(*   - BlogEditor's autosave effect and handleSave,                        *)
(*   - ThemeManager (lib/theme-manager.ts) with the color analysis         *)
(*     (lib/color-analyzer.ts) and applyAccentColor (lib/theme-utils.ts),  *)
(*   - generateSlug of the blog save endpoint,                             *)
(*   - the route middleware (middleware.ts),                               *)
(*   - ProductionPerformanceMonitor.                                       *)
(* Seven specifications share the module: SpecCP, SpecEditor, SpecTheme,   *)
(* SpecColor, SpecSlug, SpecMiddleware, SpecMonitor.                       *)
(***************************************************************************)
EXTENDS Integers, Sequences, FiniteSets, TLC

(***************************************************************************)
(* JavaScript values.  Every value is a record [t, v]: t is the type tag,  *)
(* v the content.  A JS string is a pair <<kind, content>>: "txt" for      *)
(* ordinary text, "iso" for the text Date.toISOString() produces (content  *)
(* is the instant, in hours).                                              *)
(***************************************************************************)
JNull == [t |-> "null", v |-> 0]
JUndefined == [t |-> "undefined", v |-> 0]
JNaN == [t |-> "nan", v |-> 0]
JBigInt == [t |-> "bigint", v |-> 0]
JNum(n) == [t |-> "num", v |-> n]
JBool(b) == [t |-> "bool", v |-> b]
JStr(s) == [t |-> "str", v |-> s]
JTxt(s) == JStr(<<"txt", s>>)
JArr(items) == [t |-> "arr", v |-> items]
JObj(fields) == [t |-> "obj", v |-> fields]

\* ToBoolean: what `if (x)` and `!x` test.
Truthy(x) ==
  CASE x.t \in {"null", "undefined", "nan"} -> FALSE
    [] x.t = "num" -> x.v # 0
    [] x.t = "bool" -> x.v
    [] x.t = "str" -> x.v # <<"txt", "">>
    [] OTHER -> TRUE

\* Property read x.name: a TypeError on null and undefined, undefined when
\* the property is missing or x is a primitive.
RECURSIVE FieldAt(_, _, _)
FieldAt(fields, name, i) ==
  IF i > Len(fields) THEN JUndefined
  ELSE IF fields[i][1] = name THEN fields[i][2]
  ELSE FieldAt(fields, name, i + 1)

GetThrows(x) == x.t \in {"null", "undefined"}

Get(x, name) == IF x.t = "obj" THEN FieldAt(x.v, name, 1) ELSE JUndefined

(***************************************************************************)
(* JSON text is a sequence of tokens <<kind, content>>:                    *)
(* <<"p", "{">> punctuation, <<"lit", "null">>, <<"num", n>>,              *)
(* <<"str", s>>.                                                           *)
(***************************************************************************)
P(c) == <<"p", c>>

\* JSON.stringify throws a TypeError on a BigInt anywhere in the value.
RECURSIVE StringifyThrows(_)
StringifyThrows(x) ==
  CASE x.t = "bigint" -> TRUE
    [] x.t = "arr" -> \E i \in 1..Len(x.v) : StringifyThrows(x.v[i])
    [] x.t = "obj" -> \E i \in 1..Len(x.v) : StringifyThrows(x.v[i][2])
    [] OTHER -> FALSE

\* JSON.stringify: NaN becomes null, undefined becomes null inside an array
\* and drops its key inside an object.
RECURSIVE Stringify(_), StringifyItems(_, _, _), StringifyFields(_, _, _)
Stringify(x) ==
  CASE x.t \in {"null", "nan", "undefined"} -> << <<"lit", "null">> >>
    [] x.t = "bool" -> << <<"lit", IF x.v THEN "true" ELSE "false">> >>
    [] x.t = "num" -> << <<"num", x.v>> >>
    [] x.t = "str" -> << <<"str", x.v>> >>
    [] x.t = "arr" -> <<P("[")>> \o StringifyItems(x.v, 1, TRUE) \o <<P("]")>>
    [] x.t = "obj" -> <<P("{")>> \o StringifyFields(x.v, 1, TRUE) \o <<P("}")>>

StringifyItems(items, i, first) ==
  IF i > Len(items) THEN <<>>
  ELSE (IF first THEN <<>> ELSE <<P(",")>>) \o Stringify(items[i])
       \o StringifyItems(items, i + 1, FALSE)

StringifyFields(fields, i, first) ==
  IF i > Len(fields) THEN <<>>
  ELSE IF fields[i][2].t = "undefined" THEN StringifyFields(fields, i + 1, first)
  ELSE (IF first THEN <<>> ELSE <<P(",")>>)
       \o << <<"str", <<"txt", fields[i][1]>>>>, P(":") >>
       \o Stringify(fields[i][2])
       \o StringifyFields(fields, i + 1, FALSE)

\* JSON.parse, by recursive descent.  A result is [ok, val, next]: next is
\* the index of the first token not consumed.
ParseFail == [ok |-> FALSE, val |-> JNull, next |-> 0]

RECURSIVE ParseValue(_, _), ParseItems(_, _, _), ParseFields(_, _, _)
ParseValue(toks, i) ==
  IF i > Len(toks) THEN ParseFail
  ELSE LET tok == toks[i] IN
    CASE tok[1] = "lit" ->
           [ok |-> TRUE, next |-> i + 1,
            val |-> CASE tok[2] = "null" -> JNull
                      [] tok[2] = "true" -> JBool(TRUE)
                      [] OTHER -> JBool(FALSE)]
      [] tok[1] = "num" -> [ok |-> TRUE, next |-> i + 1, val |-> JNum(tok[2])]
      [] tok[1] = "str" -> [ok |-> TRUE, next |-> i + 1, val |-> JStr(tok[2])]
      [] tok = P("[") ->
           IF i + 1 <= Len(toks) /\ toks[i + 1] = P("]")
           THEN [ok |-> TRUE, next |-> i + 2, val |-> JArr(<<>>)]
           ELSE ParseItems(toks, i + 1, <<>>)
      [] tok = P("{") ->
           IF i + 1 <= Len(toks) /\ toks[i + 1] = P("}")
           THEN [ok |-> TRUE, next |-> i + 2, val |-> JObj(<<>>)]
           ELSE ParseFields(toks, i + 1, <<>>)
      [] OTHER -> ParseFail

ParseItems(toks, i, acc) ==
  LET r == ParseValue(toks, i) IN
  IF ~r.ok \/ r.next > Len(toks) THEN ParseFail
  ELSE IF toks[r.next] = P("]")
       THEN [ok |-> TRUE, next |-> r.next + 1, val |-> JArr(Append(acc, r.val))]
  ELSE IF toks[r.next] = P(",") THEN ParseItems(toks, r.next + 1, Append(acc, r.val))
  ELSE ParseFail

ParseFields(toks, i, acc) ==
  IF i + 1 > Len(toks) THEN ParseFail
  ELSE IF toks[i][1] # "str" \/ toks[i + 1] # P(":") THEN ParseFail
  ELSE IF toks[i][2][1] # "txt" THEN ParseFail
  ELSE LET r == ParseValue(toks, i + 2)
           acc2 == Append(acc, <<toks[i][2][2], r.val>>) IN
       IF ~r.ok \/ r.next > Len(toks) THEN ParseFail
       ELSE IF toks[r.next] = P("}")
            THEN [ok |-> TRUE, next |-> r.next + 1, val |-> JObj(acc2)]
       ELSE IF toks[r.next] = P(",") THEN ParseFields(toks, r.next + 1, acc2)
       ELSE ParseFail

\* JSON.parse(text): a SyntaxError unless the whole text is one value.
Parse(text) ==
  LET r == ParseValue(text, 1) IN
  IF r.ok /\ r.next = Len(text) + 1 THEN r ELSE ParseFail

\* new Date(x).getTime(): [nan, at], at in hours.
DateTime(x) ==
  CASE x.t = "str" /\ x.v[1] = "iso" -> [nan |-> FALSE, at |-> x.v[2]]
    [] x.t = "num" -> [nan |-> FALSE, at |-> x.v]
    [] x.t = "null" -> [nan |-> FALSE, at |-> 0]
    [] OTHER -> [nan |-> TRUE, at |-> 0]


(***************************************************************************)
(* Keys.  A key is named by its string; Text gives its characters, so that *)
(* `${key}-backup` and key.includes(...) are computed on the text as the   *)
(* code computes them.                                                     *)
(***************************************************************************)
TestKey == "test-blog-autosave"

OtherKey == "other-key"

EditorKey == "blog-editor-autosave"

AllKeys ==
  {TestKey, "test-blog-autosave-backup", OtherKey, EditorKey,
   "blog-editor-autosave-backup"}

Text(key) ==
  CASE key = "test-blog-autosave" ->
         <<"t", "e", "s", "t", "-", "b", "l", "o", "g", "-", "a", "u", "t", "o", "s", "a", "v", "e">>
    [] key = "test-blog-autosave-backup" ->
         <<"t", "e", "s", "t", "-", "b", "l", "o", "g", "-", "a", "u", "t", "o", "s", "a", "v", "e", "-", "b", "a", "c", "k", "u", "p">>
    [] key = "other-key" ->
         <<"o", "t", "h", "e", "r", "-", "k", "e", "y">>
    [] key = "blog-editor-autosave" ->
         <<"b", "l", "o", "g", "-", "e", "d", "i", "t", "o", "r", "-", "a", "u", "t", "o", "s", "a", "v", "e">>
    [] key = "blog-editor-autosave-backup" ->
         <<"b", "l", "o", "g", "-", "e", "d", "i", "t", "o", "r", "-", "a", "u", "t", "o", "s", "a", "v", "e", "-", "b", "a", "c", "k", "u", "p">>
    [] OTHER -> <<>>

BackupSuffix == <<"-", "b", "a", "c", "k", "u", "p">>

AutosaveWord == <<"a", "u", "t", "o", "s", "a", "v", "e">>

EditorWord == <<"e", "d", "i", "t", "o", "r">>

\* String.prototype.includes
Includes(text, word) ==
  \E i \in 0..(Len(text) - Len(word)) :
    \A j \in 1..Len(word) : text[i + j] = word[j]

\* `${key}-backup`
BackupKey(key) == CHOOSE b \in AllKeys : Text(b) = Text(key) \o BackupSuffix

\* The order in which localStorage.key(i) enumerates the slots.
KeyOrder ==
  <<TestKey, BackupKey(TestKey), OtherKey, EditorKey, BackupKey(EditorKey)>>

(***************************************************************************)
(* localStorage.  A slot holds a JSON text or NoItem (getItem gives null). *)
(* A call runs in one of three modes: "ok"; "quota", where setItem throws  *)
(* QuotaExceededError; "disabled", where every access of localStorage      *)
(* throws SecurityError.                                                   *)
(***************************************************************************)
NoItem == << <<"absent", "">> >>

Modes == {"ok", "quota", "disabled"}

\* The modes that differ for a call that never writes.
ReadModes == {"ok", "disabled"}

StorageThrows(m, call) == m = "disabled" \/ (m = "quota" /\ call = "setItem")

EmptyStore == [k \in AllKeys |-> NoItem]

(***************************************************************************)
(* ContentPersistence.  Every operation gives [store, ret, threw]: the     *)
(* store it leaves, the value it returns, whether it threw to its caller.  *)
(***************************************************************************)
MAX_AGE_HOURS == 24

VERSION == JTxt("1.0.0")

Ret(st, ret) == [store |-> st, ret |-> ret, threw |-> FALSE]

Thrown(st) == [store |-> st, ret |-> JUndefined, threw |-> TRUE]

\* clear that empties the whole of localStorage.
clearAll(st, key, m) ==
  IF StorageThrows(m, "removeItem") THEN Thrown(st)
  ELSE Ret([k \in DOMAIN st |-> NoItem], JUndefined)

clear(st, key, m) ==
  IF StorageThrows(m, "removeItem") THEN Thrown(st)
  ELSE Ret([st EXCEPT ![key] = NoItem], JUndefined)

has(st, key, m) ==
  IF StorageThrows(m, "getItem") THEN Thrown(st)
  ELSE Ret(st, JBool(st[key] # NoItem))

AutoSaveData(data, now) ==
  JObj(<< <<"data", data>>, <<"timestamp", JStr(<<"iso", now>>)>>,
          <<"version", VERSION>> >>)

\* save without the {data, timestamp, version} wrapper.
saveBare(st, key, data, now, m) ==
  IF StringifyThrows(data) \/ StorageThrows(m, "setItem")
  THEN Ret(st, JBool(FALSE))
  ELSE Ret([st EXCEPT ![key] = Stringify(data)], JBool(TRUE))

\* save that removes the old item before a write that then fails.
saveRemoveFirst(st, key, data, now, m) ==
  IF StringifyThrows(AutoSaveData(data, now)) \/ m = "disabled"
  THEN Ret(st, JBool(FALSE))
  ELSE IF m = "quota" THEN Ret([st EXCEPT ![key] = NoItem], JBool(FALSE))
  ELSE Ret([st EXCEPT ![key] = Stringify(AutoSaveData(data, now))], JBool(TRUE))

save(st, key, data, now, m) ==
  IF StringifyThrows(AutoSaveData(data, now)) \/ StorageThrows(m, "setItem")
  THEN Ret(st, JBool(FALSE))
  ELSE Ret([st EXCEPT ![key] = Stringify(AutoSaveData(data, now))], JBool(TRUE))

\* ageHours > MAX_AGE_HOURS; a NaN age compares false.
\* The age taken in minutes and compared with the window in hours' number.
TooOldMinutes(savedTime, now) ==
  ~savedTime.nan /\ now - savedTime.at > MAX_AGE_HOURS * 60

TooOld(savedTime, now) == ~savedTime.nan /\ now - savedTime.at > MAX_AGE_HOURS

\* The catch block of load: this.clear(key); return null.
loadCatch(st, key, m) ==
  LET c == clear(st, key, m) IN
  IF c.threw THEN c ELSE Ret(c.store, JNull)

load(st, key, now, m) ==
  LET saved == st[key]
      parsed == Parse(saved)
      savedTime == DateTime(Get(parsed.val, "timestamp"))
  IN
  IF StorageThrows(m, "getItem") THEN loadCatch(st, key, m)
  ELSE IF saved = NoItem \/ saved = <<>> THEN Ret(st, JNull)
  ELSE IF ~parsed.ok \/ GetThrows(parsed.val) THEN loadCatch(st, key, m)
  ELSE IF TooOld(savedTime, now)
       THEN (LET c == clear(st, key, m) IN
             IF c.threw THEN loadCatch(st, key, m) ELSE Ret(c.store, JNull))
  ELSE Ret(st, Get(parsed.val, "data"))

\* getAge that answers null for a record past the retention window.
getAgeFresh(st, key, now, m) ==
  LET saved == st[key]
      parsed == Parse(saved)
      savedTime == DateTime(Get(parsed.val, "timestamp"))
  IN
  IF StorageThrows(m, "getItem") THEN Ret(st, JNull)
  ELSE IF saved = NoItem \/ saved = <<>> THEN Ret(st, JNull)
  ELSE IF ~parsed.ok \/ GetThrows(parsed.val) THEN Ret(st, JNull)
  ELSE IF savedTime.nan THEN Ret(st, JNaN)
  ELSE IF TooOld(savedTime, now) THEN Ret(st, JNull)
  ELSE Ret(st, JNum((now - savedTime.at) * 60))

\* Minutes since the record's timestamp; NaN when it has none.
getAge(st, key, now, m) ==
  LET saved == st[key]
      parsed == Parse(saved)
      savedTime == DateTime(Get(parsed.val, "timestamp"))
  IN
  IF StorageThrows(m, "getItem") THEN Ret(st, JNull)
  ELSE IF saved = NoItem \/ saved = <<>> THEN Ret(st, JNull)
  ELSE IF ~parsed.ok \/ GetThrows(parsed.val) THEN Ret(st, JNull)
  ELSE IF savedTime.nan THEN Ret(st, JNaN)
  ELSE Ret(st, JNum((now - savedTime.at) * 60))

createBackup(st, key, data, now, m) == save(st, BackupKey(key), data, now, m)

restoreBackup(st, key, now, m) ==
  LET backup == load(st, BackupKey(key), now, m) IN
  IF backup.threw THEN backup
  ELSE IF Truthy(backup.ret)
       THEN (LET s == save(backup.store, key, backup.ret, now, m)
                 c == clear(s.store, BackupKey(key), m) IN
             IF c.threw THEN c ELSE Ret(c.store, backup.ret))
  ELSE backup

\* The keys listAutoSaves collects from index i on.
RECURSIVE AutoSaveKeys(_, _)
AutoSaveKeys(st, i) ==
  IF i > Len(KeyOrder) THEN <<>>
  ELSE LET key == KeyOrder[i] IN
       (IF st[key] # NoItem /\ Text(key) # <<>>
           /\ (Includes(Text(key), AutosaveWord) \/ Includes(Text(key), EditorWord))
        THEN <<key>> ELSE <<>>) \o AutoSaveKeys(st, i + 1)

KeyList(keys) == JArr([i \in 1..Len(keys) |-> JStr(<<"key", keys[i]>>)])

\* listAutoSaves that collects every key.
listEveryKey(st, m) ==
  IF StorageThrows(m, "length") THEN Thrown(st)
  ELSE Ret(st, KeyList(SelectSeq(KeyOrder, LAMBDA key : st[key] # NoItem)))

listAutoSaves(st, m) ==
  IF StorageThrows(m, "length") THEN Thrown(st)
  ELSE Ret(st, KeyList(AutoSaveKeys(st, 1)))

\* The loop of cleanupOldSaves over keys[i..], with `cleaned` so far.
RECURSIVE cleanupLoop(_, _, _, _, _, _)
cleanupLoop(st, keys, i, cleaned, now, m) ==
  IF i > Len(keys) THEN Ret(st, JNum(cleaned))
  ELSE LET age == getAge(st, keys[i], now, m).ret IN
       IF age.t = "num" /\ age.v > MAX_AGE_HOURS * 60
       THEN (LET c == clear(st, keys[i], m) IN
             IF c.threw THEN c
             ELSE cleanupLoop(c.store, keys, i + 1, cleaned + 1, now, m))
       ELSE cleanupLoop(st, keys, i + 1, cleaned, now, m)

\* cleanupOldSaves that goes through every key.
cleanupEveryKey(st, now, m) ==
  IF StorageThrows(m, "length") THEN Thrown(st)
  ELSE cleanupLoop(st, SelectSeq(KeyOrder, LAMBDA key : st[key] # NoItem), 1, 0,
                   now, m)

cleanupOldSaves(st, now, m) ==
  IF StorageThrows(m, "length") THEN Thrown(st)
  ELSE cleanupLoop(st, AutoSaveKeys(st, 1), 1, 0, now, m)


(***************************************************************************)
(* The calls made on ContentPersistence.  `last` is the call that ran      *)
(* last: [op, key, arg, ret, threw, mode, before], where `before` is the   *)
(* text the slot the call works on held when the call started.             *)
(***************************************************************************)
VARIABLES store, clock, last

\* The state of a BlogEditor and of a ThemeManager on the same page; they
\* are described where their steps are defined.
VARIABLES doc, timers, timerRef, ui, pending, mounted, edits, quiet, ev, committed

VARIABLES css, currentState, transitionDuration, ops, microtasks, transitions,
          requireDefined, page

VARIABLES lab, analysed

VARIABLES post

\* A request on its way through the middleware, and the performance monitor
\* of the page.
VARIABLES web, perf

cpVars == <<store, clock, last>>

editorVars == <<doc, timers, timerRef, ui, pending, mounted, edits, quiet, ev,
                committed>>

themeVars == <<css, currentState, transitionDuration, ops, microtasks,
               transitions, requireDefined, page>>

colorVars == <<lab, analysed>>

slugVars == <<post>>

siteVars == <<web, perf>>

vars == <<cpVars, editorVars, themeVars, colorVars, slugVars, siteVars>>

\* The payload of the test suite, a falsy payload, and two values
\* JSON cannot carry: NaN (written as null) and a BigInt (stringify throws).
TestData ==
  JObj(<< <<"metadata", JObj(<< <<"title", JTxt("Test Post")>>,
                               <<"tags", JArr(<<JTxt("test")>>)>>,
                               <<"draft", JBool(TRUE)>> >>)>>,
         <<"content", JTxt("# Test Content")>> >>)

Payloads == {TestData, JNum(0), JNaN, JBigInt}

RECURSIVE JsonSerializable(_)
JsonSerializable(x) ==
  CASE x.t \in {"null", "bool", "num", "str"} -> TRUE
    [] x.t = "arr" -> \A i \in 1..Len(x.v) : JsonSerializable(x.v[i])
    [] x.t = "obj" -> \A i \in 1..Len(x.v) : JsonSerializable(x.v[i][2])
    [] OTHER -> FALSE

\* Texts another script, an older version or the user can leave in a slot:
\* the empty string, a truncated text, null, {} and a record with no timestamp.
ForeignTexts ==
  { <<>>, <<P("{")>>, Stringify(JNull), Stringify(JObj(<<>>)),
    Stringify(JObj(<< <<"data", JTxt("x")>> >>)) }

CPKeys == {TestKey, BackupKey(TestKey)}

\* Hours the clock moves in one step, and how far it runs.
TickHours == MAX_AGE_HOURS

MaxTicks == 2

NoCall == [op |-> "none", key |-> "", arg |-> JUndefined, ret |-> JUndefined,
           threw |-> FALSE, mode |-> "ok", before |-> NoItem]

\* The slot a call works on: the backup slot for createBackup and
\* restoreBackup, none for the calls that take no key.
SlotOf(op, key) ==
  IF op \in {"createBackup", "restoreBackup"} THEN BackupKey(key) ELSE key

Call(op, key, arg, r, m) ==
  [op |-> op, key |-> key, arg |-> arg, ret |-> r.ret, threw |-> r.threw,
   mode |-> m,
   before |-> IF key = "" THEN NoItem ELSE store[SlotOf(op, key)]]

Did(op, key, arg, r, m) ==
  /\ store' = r.store
  /\ last' = Call(op, key, arg, r, m)
  /\ UNCHANGED <<clock, editorVars, themeVars, colorVars, slugVars, siteVars>>

Save == \E key \in CPKeys, data \in Payloads, m \in Modes :
  Did("save", key, data, save(store, key, data, clock, m), m)

Load == \E key \in CPKeys, m \in ReadModes :
  Did("load", key, JUndefined, load(store, key, clock, m), m)

GetAge == \E key \in CPKeys, m \in ReadModes :
  Did("getAge", key, JUndefined, getAge(store, key, clock, m), m)

Has == \E key \in CPKeys, m \in ReadModes :
  Did("has", key, JUndefined, has(store, key, m), m)

Clear == \E key \in CPKeys, m \in ReadModes :
  Did("clear", key, JUndefined, clear(store, key, m), m)

CreateBackup == \E data \in Payloads, m \in Modes :
  Did("createBackup", TestKey, data, createBackup(store, TestKey, data, clock, m), m)

RestoreBackup == \E m \in Modes :
  Did("restoreBackup", TestKey, JUndefined, restoreBackup(store, TestKey, clock, m), m)

ListAutoSaves == \E m \in ReadModes :
  Did("listAutoSaves", "", JUndefined, listAutoSaves(store, m), m)

CleanupOldSaves == \E m \in ReadModes :
  Did("cleanupOldSaves", "", JUndefined, cleanupOldSaves(store, clock, m), m)

\* Something other than ContentPersistence writes a slot.
ForeignWrite == \E key \in CPKeys, text \in ForeignTexts :
  Did("foreign", key, JUndefined, Ret([store EXCEPT ![key] = text], JUndefined), "ok")

Tick ==
  /\ clock + TickHours <= MaxTicks * TickHours
  /\ clock' = clock + TickHours
  /\ last' = [NoCall EXCEPT !.op = "tick"]
  /\ UNCHANGED <<store, editorVars, themeVars, colorVars, slugVars, siteVars>>

NextCP ==
  \/ Save \/ Load \/ GetAge \/ Has \/ Clear \/ CreateBackup \/ RestoreBackup
  \/ ListAutoSaves \/ CleanupOldSaves \/ ForeignWrite \/ Tick



(***************************************************************************)
(* BlogEditor (components/admin/BlogEditor.tsx): the autosave effect, the  *)
(* load-on-mount effect and handleSave, on the same localStorage.          *)
(*   doc        the metadata and content state of the last render          *)
(*   timers     the pending setTimeout callbacks [id, remaining, data]     *)
(*   timerRef   autoSaveTimerRef.current (0 for null)                      *)
(*   ui         isSaving, saveError, autoSaveStatus, lastSaved             *)
(*   pending    the onSave call in flight and the data it was given        *)
(*   mounted    "no", "yes", "gone"                                        *)
(*   edits      how many changes of metadata or content were made          *)
(*   quiet      seconds since the last such change, counted up to the      *)
(*              autosave delay                                             *)
(*   ev         the last step: [kind, data, ok]                            *)
(*   committed  onSave resolved, the drafts were cleared, and since then   *)
(*              no edit was made and no other save was started             *)
(***************************************************************************)
\* The delay of the autosave timer, in seconds.
AUTOSAVE_DELAY == 2

\* Changes of metadata or content made in one run.
MaxEdits == 2

Titles == {"", "T"}

Descriptions == {"", "D"}

Contents == {"", " ", "a", "b"}

\* String.prototype.trim on the texts above.
Trim(text) == IF text = " " THEN "" ELSE text

EmptyDoc == [title |-> "", description |-> "", content |-> ""]

\* The post handed to the editor in edit mode.
LoadedDoc == [title |-> "T", description |-> "D", content |-> "a"]

\* { metadata, content }
PayloadOf(d) ==
  JObj(<< <<"metadata", JObj(<< <<"title", JTxt(d.title)>>,
                               <<"description", JTxt(d.description)>> >>)>>,
         <<"content", JTxt(d.content)>> >>)

\* saved.metadata and saved.content of a loaded draft.
DocOf(saved) ==
  [title |-> Get(Get(saved, "metadata"), "title").v[2],
   description |-> Get(Get(saved, "metadata"), "description").v[2],
   content |-> Get(saved, "content").v[2]]

\* The validation of handleSave: the error it sets, "" when there is none.
Validate(d) ==
  IF Trim(d.title) = "" THEN "Title is required"
  ELSE IF Trim(d.description) = "" THEN "Description is required"
  ELSE IF Trim(d.content) = "" THEN "Content is required"
  ELSE ""

clearTimeout(ts, id) == {t \in ts : t.id # id}

\* An autosave effect that leaves the timer of the last render pending.
autoSaveEffectKeep(ts, ref, id, d) ==
  [timers |-> ts \cup {[id |-> id, remaining |-> AUTOSAVE_DELAY, data |-> d]},
   ref |-> id]

\* The autosave effect of a render with state d: the cleanup of the last
\* effect and the effect itself clear the timer in the ref, then a new
\* timer is set whose callback closes over d.
autoSaveEffect(ts, ref, id, d) ==
  [timers |-> clearTimeout(ts, ref)
                \cup {[id |-> id, remaining |-> AUTOSAVE_DELAY, data |-> d]},
   ref |-> id]

NoDoc == [title |-> "-", description |-> "-", content |-> "-"]

Ev(kind, d, ok) == [kind |-> kind, data |-> d, ok |-> ok]

Ui0 == [isSaving |-> FALSE, saveError |-> "", autoSaveStatus |-> "saved",
        lastSaved |-> FALSE]

\* A render with new metadata or content d, and its autosave effect.
Rerender(d) ==
  LET e == autoSaveEffect(timers, timerRef, timerRef + 1, d) IN
  /\ doc' = d
  /\ timers' = e.timers
  /\ timerRef' = e.ref
  /\ quiet' = 0

\* The first render and its effects: the autosave effect, then the load of
\* a draft (new post only) that the user accepts or declines.
Mount == \E initialData \in {EmptyDoc, LoadedDoc}, accept \in BOOLEAN, m \in ReadModes :
  LET l == load(store, EditorKey, clock, m)
      found == initialData = EmptyDoc /\ ~l.threw /\ Truthy(l.ret)
      d == IF found /\ accept THEN DocOf(l.ret) ELSE initialData
      c == IF found /\ ~accept THEN clear(l.store, EditorKey, m) ELSE l
      e1 == autoSaveEffect(timers, timerRef, 1, initialData)
      e2 == IF found /\ accept THEN autoSaveEffect(e1.timers, e1.ref, 2, d) ELSE e1
  IN
  /\ mounted = "no"
  /\ mounted' = "yes"
  /\ doc' = d
  /\ timers' = e2.timers
  /\ timerRef' = e2.ref
  /\ quiet' = 0
  /\ store' = IF initialData = EmptyDoc THEN c.store ELSE store
  /\ ui' = [ui EXCEPT !.autoSaveStatus = "unsaved",
                      !.lastSaved = @ \/ (found /\ accept)]
  /\ ev' = Ev("mount", NoDoc, ~(initialData = EmptyDoc /\ l.threw))
  /\ UNCHANGED <<clock, last, pending, edits, committed, themeVars, colorVars, slugVars, siteVars>>

\* handleMetadataChange, setContent and the 'blog-data-loaded' handler.
\* setMetadata always makes a new object; setContent with the same text
\* changes nothing and renders nothing.
Edit == \E field \in {"title", "description", "content"} :
  \E value \in (CASE field = "title" -> Titles
                  [] field = "description" -> Descriptions
                  [] OTHER -> Contents) :
    /\ mounted = "yes"
    /\ edits < MaxEdits
    /\ field = "content" => value # doc.content
    /\ Rerender([doc EXCEPT ![field] = value])
    /\ edits' = edits + 1
    /\ ui' = [ui EXCEPT !.autoSaveStatus = "unsaved"]
    /\ ev' = Ev("edit", NoDoc, TRUE)
    /\ committed' = FALSE
    /\ UNCHANGED <<store, clock, last, pending, mounted, themeVars, colorVars, slugVars, siteVars>>

\* One second passes.
TickSecond ==
  /\ mounted # "no"
  /\ \/ quiet < AUTOSAVE_DELAY
     \/ \E t \in timers : t.remaining > 0
  /\ timers' = {[t EXCEPT !.remaining = IF @ > 0 THEN @ - 1 ELSE 0] : t \in timers}
  /\ quiet' = IF quiet < AUTOSAVE_DELAY THEN quiet + 1 ELSE quiet
  /\ ev' = Ev("tick", NoDoc, TRUE)
  /\ UNCHANGED <<store, clock, last, doc, timerRef, ui, pending, mounted, edits,
                 committed, themeVars, colorVars, slugVars, siteVars>>

\* The callback of a due autosave timer.
TimerFire == \E t \in timers, m \in Modes :
  LET s == save(store, EditorKey, PayloadOf(t.data), clock, m) IN
  /\ t.remaining = 0
  /\ timers' = timers \ {t}
  /\ store' = s.store
  /\ ui' = IF s.ret = JBool(TRUE)
           THEN [ui EXCEPT !.autoSaveStatus = "saved", !.lastSaved = TRUE]
           ELSE [ui EXCEPT !.autoSaveStatus = "unsaved"]
  /\ ev' = Ev("fire", t.data, s.ret = JBool(TRUE))
  /\ UNCHANGED <<clock, last, doc, timerRef, pending, mounted, edits, quiet,
                 committed, themeVars, colorVars, slugVars, siteVars>>

\* handleSave up to the await: validation, the backup, the call of onSave.
\* The button is disabled while isSaving.
SaveClick == \E m \in Modes :
  LET b == createBackup(store, EditorKey, PayloadOf(doc), clock, m) IN
  /\ mounted = "yes"
  /\ ~ui.isSaving
  /\ IF Validate(doc) # ""
     THEN /\ ui' = [ui EXCEPT !.saveError = Validate(doc)]
          /\ ev' = Ev("invalid", NoDoc, FALSE)
          /\ UNCHANGED <<store, pending, committed>>
     ELSE /\ ui' = [ui EXCEPT !.isSaving = TRUE, !.saveError = ""]
          /\ store' = b.store
          /\ pending' = [active |-> TRUE, data |-> doc]
          /\ ev' = Ev("submit", doc, b.ret = JBool(TRUE))
          /\ committed' = FALSE
  /\ UNCHANGED <<clock, last, doc, timers, timerRef, mounted, edits, quiet,
                 themeVars, colorVars, slugVars, siteVars>>

\* The catch block of handleSave and its finally.
SaveFailed(st, m) ==
  LET r == restoreBackup(st, EditorKey, clock, m) IN
  /\ store' = r.store
  /\ ui' = [ui EXCEPT !.isSaving = FALSE, !.saveError = "Failed to save"]
  /\ ev' = Ev("failed", pending.data, ~r.threw)
  /\ UNCHANGED committed

\* onSave resolves: both drafts are cleared; a clear that throws lands in
\* the catch block.
OnSaveResolve == \E m \in ReadModes :
  LET c1 == clear(store, EditorKey, m)
      c2 == clear(c1.store, BackupKey(EditorKey), m) IN
  /\ pending.active
  /\ pending' = [active |-> FALSE, data |-> NoDoc]
  /\ IF c1.threw \/ c2.threw
     THEN SaveFailed(c1.store, m)
     ELSE /\ store' = c2.store
          /\ ui' = [ui EXCEPT !.isSaving = FALSE, !.autoSaveStatus = "saved",
                              !.lastSaved = TRUE]
          /\ ev' = Ev("saved", pending.data, TRUE)
          /\ committed' = TRUE
  /\ UNCHANGED <<clock, last, doc, timers, timerRef, mounted, edits, quiet, themeVars, colorVars, slugVars, siteVars>>

\* onSave rejects.
OnSaveReject == \E m \in Modes :
  /\ pending.active
  /\ pending' = [active |-> FALSE, data |-> NoDoc]
  /\ SaveFailed(store, m)
  /\ UNCHANGED <<clock, last, doc, timers, timerRef, mounted, edits, quiet, themeVars, colorVars, slugVars, siteVars>>

\* The cleanup of the autosave effect when the component unmounts.
Unmount ==
  /\ mounted = "yes"
  /\ mounted' = "gone"
  /\ timers' = clearTimeout(timers, timerRef)
  /\ ev' = Ev("unmount", NoDoc, TRUE)
  /\ UNCHANGED <<store, clock, last, doc, timerRef, ui, pending, edits, quiet,
                 committed, themeVars, colorVars, slugVars, siteVars>>

\* Before the first render; localStorage may hold the draft of an earlier
\* session.
EditorIdle ==
  /\ doc = EmptyDoc
  /\ timers = {}
  /\ timerRef = 0
  /\ ui = Ui0
  /\ pending = [active |-> FALSE, data |-> NoDoc]
  /\ mounted = "no"
  /\ edits = 0
  /\ quiet = 0
  /\ ev = Ev("none", NoDoc, TRUE)
  /\ committed = FALSE

NextEditor ==
  \/ Mount \/ Edit \/ TickSecond \/ TimerFire \/ SaveClick
  \/ OnSaveResolve \/ OnSaveReject \/ Unmount

(***************************************************************************)
(* Numbers of the color code.  The code computes with doubles; here a      *)
(* number is an exact fraction <<n, d>> in lowest terms with d > 0, so     *)
(* Math.round rounds an exact half up where the double may lie just below  *)
(* it.                                                                     *)
(***************************************************************************)
Abs(n) == IF n < 0 THEN -n ELSE n

RECURSIVE GCD(_, _)
GCD(a, b) == IF b = 0 THEN a ELSE GCD(b, a % b)

Frac(n, d) ==
  LET g == GCD(Abs(n), d) IN
  IF g = 0 THEN <<0, 1>> ELSE <<n \div g, d \div g>>

Num(n) == <<n, 1>>

Times(x, y) ==
  LET g1 == GCD(Abs(x[1]), y[2])
      g2 == GCD(Abs(y[1]), x[2]) IN
  Frac((x[1] \div g1) * (y[1] \div g2), (x[2] \div g2) * (y[2] \div g1))

Plus(x, y) ==
  LET g == GCD(x[2], y[2]) IN
  Frac(x[1] * (y[2] \div g) + y[1] * (x[2] \div g), (x[2] \div g) * y[2])

Minus(x, y) == Plus(x, <<-y[1], y[2]>>)

Over(x, y) ==
  Times(x, IF y[1] > 0 THEN <<y[2], y[1]>> ELSE <<-y[2], -y[1]>>)

Less(x, y) == x[1] * y[2] < y[1] * x[2]

Max2(x, y) == IF Less(x, y) THEN y ELSE x

Min2(x, y) == IF Less(x, y) THEN x ELSE y

Floor(x) == x[1] \div x[2]

\* Math.round
Round(x) == Floor(Plus(x, <<1, 2>>))

(***************************************************************************)
(* color-analyzer.ts.  A color string is the sequence of the hexadecimal   *)
(* digits after the '#'; an RGB value is [r, g, b].                        *)
(***************************************************************************)
RECURSIVE Digits16(_)
Digits16(n) == IF n < 16 THEN <<n>> ELSE Append(Digits16(n \div 16), n % 16)

\* toHex of rgbToHex: Math.round(n).toString(16), with a '0' in front of a
\* single digit.
toHex(n) == IF Len(Digits16(n)) = 1 THEN <<0>> \o Digits16(n) ELSE Digits16(n)

rgbToHex(rgb) == toHex(rgb.r) \o toHex(rgb.g) \o toHex(rgb.b)

\* hexToRgb: the pattern takes exactly six digits, anything else throws.
hexToRgbThrows(hex) == Len(hex) # 6

hexToRgb(hex) ==
  [r |-> 16 * hex[1] + hex[2], g |-> 16 * hex[3] + hex[4],
   b |-> 16 * hex[5] + hex[6]]

\* rgbToHsl: h in degrees, s and l in 0..1.
rgbToHsl(rgb) ==
  LET r == Frac(rgb.r, 255)
      g == Frac(rgb.g, 255)
      b == Frac(rgb.b, 255)
      max == Max2(r, Max2(g, b))
      min == Min2(r, Min2(g, b))
      l == Over(Plus(max, min), Num(2))
      d == Minus(max, min)
      s == IF Less(<<1, 2>>, l) THEN Over(d, Minus(Minus(Num(2), max), min))
           ELSE Over(d, Plus(max, min))
      h == IF max = r
           THEN Over(Plus(Over(Minus(g, b), d),
                          Num(IF Less(g, b) THEN 6 ELSE 0)), Num(6))
           ELSE IF max = g
           THEN Over(Plus(Over(Minus(b, r), d), Num(2)), Num(6))
           ELSE Over(Plus(Over(Minus(r, g), d), Num(4)), Num(6))
  IN IF max = min THEN [h |-> Num(0), s |-> Num(0), l |-> l]
     ELSE [h |-> Times(h, Num(360)), s |-> s, l |-> l]

hue2rgb(p, q, t0) ==
  LET t1 == IF Less(t0, Num(0)) THEN Plus(t0, Num(1)) ELSE t0
      t == IF Less(Num(1), t1) THEN Minus(t1, Num(1)) ELSE t1
  IN IF Less(t, <<1, 6>>) THEN Plus(p, Times(Times(Minus(q, p), Num(6)), t))
     ELSE IF Less(t, <<1, 2>>) THEN q
     ELSE IF Less(t, <<2, 3>>)
     THEN Plus(p, Times(Times(Minus(q, p), Minus(<<2, 3>>, t)), Num(6)))
     ELSE p

hslToHex(hsl) ==
  LET h == Over(hsl.h, Num(360))
      s == hsl.s
      l == hsl.l
      q == IF Less(l, <<1, 2>>) THEN Times(l, Plus(Num(1), s))
           ELSE Minus(Plus(l, s), Times(l, s))
      p == Minus(Times(Num(2), l), q)
      r == IF s = Num(0) THEN l ELSE hue2rgb(p, q, Plus(h, <<1, 3>>))
      g == IF s = Num(0) THEN l ELSE hue2rgb(p, q, h)
      b == IF s = Num(0) THEN l ELSE hue2rgb(p, q, Minus(h, <<1, 3>>))
  IN rgbToHex([r |-> Round(Times(r, Num(255))),
               g |-> Round(Times(g, Num(255))),
               b |-> Round(Times(b, Num(255)))])

\* c <= 0.03928 ? c / 12.92 : Math.pow((c + 0.055) / 1.055, 2.4) for
\* c = n / 255, n = 0..255, in units of 1e-5.
Linear ==
  <<
     0, 30, 61, 91, 121, 152, 182, 212, 243, 273, 304, 335, 368, 402, 439, 478,
     518, 561, 605, 651, 700, 750, 802, 857, 913, 972, 1033, 1096, 1161, 1229, 1298, 1370,
     1444, 1521, 1600, 1681, 1764, 1850, 1938, 2029, 2122, 2217, 2315, 2416, 2519, 2624, 2732, 2843,
     2956, 3071, 3190, 3310, 3434, 3560, 3689, 3820, 3955, 4092, 4231, 4374, 4519, 4667, 4817, 4971,
     5127, 5286, 5448, 5613, 5781, 5951, 6125, 6301, 6480, 6663, 6848, 7036, 7227, 7421, 7619, 7819,
     8022, 8228, 8438, 8650, 8866, 9084, 9306, 9531, 9759, 9990, 10224, 10462, 10702, 10946, 11193, 11444,
     11697, 11954, 12214, 12477, 12744, 13014, 13287, 13563, 13843, 14126, 14413, 14703, 14996, 15293, 15593, 15896,
     16203, 16513, 16827, 17144, 17465, 17789, 18116, 18447, 18782, 19120, 19462, 19807, 20156, 20508, 20864, 21223,
     21586, 21953, 22323, 22697, 23074, 23455, 23840, 24228, 24620, 25016, 25415, 25818, 26225, 26636, 27050, 27468,
     27889, 28315, 28744, 29177, 29614, 30054, 30499, 30947, 31399, 31855, 32314, 32778, 33245, 33716, 34191, 34670,
     35153, 35640, 36131, 36625, 37124, 37626, 38133, 38643, 39157, 39676, 40198, 40724, 41254, 41789, 42327, 42869,
     43415, 43966, 44520, 45079, 45641, 46208, 46778, 47353, 47932, 48515, 49102, 49693, 50289, 50888, 51492, 52100,
     52712, 53328, 53948, 54572, 55201, 55834, 56471, 57112, 57758, 58408, 59062, 59720, 60383, 61050, 61721, 62396,
     63076, 63760, 64448, 65141, 65837, 66539, 67244, 67954, 68669, 69387, 70110, 70838, 71569, 72306, 73046, 73791,
     74540, 75294, 76052, 76815, 77582, 78354, 79130, 79910, 80695, 81485, 82279, 83077, 83880, 84687, 85499, 86316,
     87137, 87962, 88792, 89627, 90466, 91310, 92158, 93011, 93869, 94731, 95597, 96469, 97345, 98225, 99110, 100000 >>

\* getRelativeLuminance, in units of 1e-8.
getRelativeLuminance(rgb) ==
  (2126 * Linear[rgb.r + 1] + 7152 * Linear[rgb.g + 1]
     + 722 * Linear[rgb.b + 1]) \div 10

\* getContrastRatio: the fraction (lighter + 0.05) / (darker + 0.05), not
\* reduced.
getContrastRatio(color1, color2) ==
  LET l1 == getRelativeLuminance(hexToRgb(color1))
      l2 == getRelativeLuminance(hexToRgb(color2))
      lighter == IF l1 > l2 THEN l1 ELSE l2
      darker == IF l1 > l2 THEN l2 ELSE l1
  IN <<lighter + 5000000, darker + 5000000>>

\* ratio >= 4.5
AtLeastAA(ratio) == 2 * ratio[1] >= 9 * ratio[2]

\* meetsAccessibilityStandards(foreground, background, 'AA')
meetsAccessibilityStandards(foreground, background) ==
  AtLeastAA(getContrastRatio(foreground, background))

White == <<15, 15, 15, 15, 15, 15>>

\* Math.round(c / 32) * 32
Quantize(c) == Round(Frac(c, 32)) * 32

\* The loop of extractColors over the sampled pixels [r, g, b, a]: pixels
\* that are transparent, very light or very dark are skipped, the others
\* counted under their quantized color, in the order of first appearance.
RECURSIVE CountColors(_, _)
CountColors(pixels, colorCounts) ==
  IF pixels = <<>> THEN colorCounts
  ELSE LET px == Head(pixels)
           q == [r |-> Quantize(px.r), g |-> Quantize(px.g), b |-> Quantize(px.b)]
           skip == \/ px.a < 128
                   \/ px.r + px.g + px.b > 3 * 240
                   \/ px.r + px.g + px.b < 3 * 15
           at == {i \in 1..Len(colorCounts) : colorCounts[i].color = q}
       IN CountColors(Tail(pixels),
            IF skip THEN colorCounts
            ELSE IF at # {}
            THEN [i \in 1..Len(colorCounts) |->
                    IF i \in at
                    THEN [colorCounts[i] EXCEPT !.count = @ + 1]
                    ELSE colorCounts[i]]
            ELSE Append(colorCounts, [color |-> q, count |-> 1]))

\* sort((a, b) => b.count - a.count): by falling count, equal counts in
\* their old order.
RECURSIVE SortByCount(_)
SortByCount(seq) ==
  IF seq = <<>> THEN <<>>
  ELSE LET sorted == SortByCount(SubSeq(seq, 1, Len(seq) - 1))
           e == seq[Len(seq)]
           n == Cardinality({i \in 1..Len(sorted) : sorted[i].count >= e.count})
       IN SubSeq(sorted, 1, n) \o <<e>> \o SubSeq(sorted, n + 1, Len(sorted))

\* slice(0, n)
Slice(seq, n) == SubSeq(seq, 1, IF Len(seq) < n THEN Len(seq) ELSE n)

extractColors(pixels, k) ==
  LET sortedColors == Slice(SortByCount(CountColors(pixels, <<>>)), k)
  IN [i \in 1..Len(sortedColors) |-> sortedColors[i].color]

RECURSIVE Filter(_, _)
Filter(seq, keep) ==
  IF seq = <<>> THEN <<>>
  ELSE IF Head(seq) \in keep THEN <<Head(seq)>> \o Filter(Tail(seq), keep)
  ELSE Filter(Tail(seq), keep)

categorizeColors(colors) ==
  LET vib == {c \in {colors[i] : i \in 1..Len(colors)} :
                Less(<<2, 5>>, rgbToHsl(c).s)}
      hexOf(seq) == [i \in 1..Len(seq) |-> rgbToHex(seq[i])]
  IN [dominant |-> Slice(hexOf(colors), 5),
      vibrant |-> Slice(hexOf(Filter(colors, vib)), 3),
      muted |-> Slice(hexOf(Filter(colors, {colors[i] : i \in 1..Len(colors)} \ vib)), 3)]

\* extractDominantColors: the promise it returns is settled when the call
\* returns; getImageData throws on a tainted canvas.
extractDominantColors(imageElement) ==
  IF imageElement.tainted
  THEN [ok |-> FALSE, dominant |-> <<>>, vibrant |-> <<>>, muted |-> <<>>]
  ELSE [ok |-> TRUE] @@ categorizeColors(extractColors(imageElement.pixels, 5))

\* hsl.s * (1 - Math.abs(hsl.l - 0.5))
Vibrancy(color) ==
  LET hsl == rgbToHsl(hexToRgb(color))
      d == Minus(hsl.l, <<1, 2>>)
  IN Times(hsl.s, Minus(Num(1), IF Less(d, Num(0)) THEN Minus(Num(0), d) ELSE d))

RECURSIVE findMostVibrantFrom(_, _, _, _)
findMostVibrantFrom(colors, i, mostVibrant, maxSaturation) ==
  IF i > Len(colors) THEN mostVibrant
  ELSE IF Less(maxSaturation, Vibrancy(colors[i]))
  THEN findMostVibrantFrom(colors, i + 1, colors[i], Vibrancy(colors[i]))
  ELSE findMostVibrantFrom(colors, i + 1, mostVibrant, maxSaturation)

findMostVibrant(colors) == findMostVibrantFrom(colors, 1, colors[1], Num(0))

\* '#2563eb', '#3b82f6', '#eff6ff', '#ffffff'
defaultAccents ==
  [primary |-> <<2, 5, 6, 3, 14, 11>>, secondary |-> <<3, 11, 8, 2, 15, 6>>,
   light |-> <<14, 15, 15, 6, 15, 15>>, contrast |-> White]

\* '#111827'
DarkContrast == <<1, 1, 1, 8, 2, 7>>

NoPalette ==
  [primary |-> <<>>, secondary |-> <<>>, light |-> <<>>, contrast |-> <<>>]

\* (h + 15) % 360 for h in 0..360
Mod360(h) == IF Less(h, Num(360)) THEN h ELSE Minus(h, Num(360))

\* The palette generateAccentPalette makes of the most vibrant color.
accentPaletteFrom(primaryColor, primaryHsl) ==
  LET secondaryHsl == [h |-> Mod360(Plus(primaryHsl.h, Num(15))),
                       s |-> Max2(<<2, 5>>, Minus(primaryHsl.s, <<1, 10>>)),
                       l |-> Min2(<<3, 5>>, Plus(primaryHsl.l, <<1, 10>>))]
      lightHsl == [h |-> primaryHsl.h,
                   s |-> Max2(<<3, 10>>, Minus(primaryHsl.s, <<1, 5>>)),
                   l |-> <<19, 20>>]
  IN [primary |-> primaryColor,
      secondary |-> hslToHex(secondaryHsl),
      light |-> hslToHex(lightHsl),
      contrast |-> IF Less(<<1, 2>>, primaryHsl.l) THEN DarkContrast ELSE White]

\* generateAccentPalette: hexToRgb throws in findMostVibrant when one of
\* the colors is not six digits long.
generateAccentPalette(dominantColors) ==
  IF Len(dominantColors) = 0 THEN [threw |-> FALSE, palette |-> defaultAccents]
  ELSE IF \E i \in 1..Len(dominantColors) : hexToRgbThrows(dominantColors[i])
  THEN [threw |-> TRUE, palette |-> NoPalette]
  ELSE [threw |-> FALSE,
        palette |-> accentPaletteFrom(
                      findMostVibrant(dominantColors),
                      rgbToHsl(hexToRgb(findMostVibrant(dominantColors))))]

maxAttempts == 20

\* The loop of adjustColorForContrast: the lightness goes down by 0.05, not
\* below 0.1, until the color meets the standard or the attempts are used up.
\* The loop darkening by 0.1 a step.
RECURSIVE adjustLoopCoarse(_, _, _, _)
adjustLoopCoarse(adjustedHsl, attempts, background, limit) ==
  IF ~meetsAccessibilityStandards(hslToHex(adjustedHsl), background)
       /\ attempts < limit
  THEN adjustLoopCoarse([adjustedHsl EXCEPT !.l = Max2(<<1, 10>>, Minus(@, <<1, 10>>))],
                        attempts + 1, background, limit)
  ELSE [hsl |-> adjustedHsl, attempts |-> attempts]

RECURSIVE adjustLoop(_, _, _, _)
adjustLoop(adjustedHsl, attempts, background, limit) ==
  IF ~meetsAccessibilityStandards(hslToHex(adjustedHsl), background)
       /\ attempts < limit
  THEN adjustLoop([adjustedHsl EXCEPT !.l = Max2(<<1, 10>>, Minus(@, <<1, 20>>))],
                  attempts + 1, background, limit)
  ELSE [hsl |-> adjustedHsl, attempts |-> attempts]

\* adjustColorForContrast giving up after two attempts.
adjustColorForContrastShort(color, background) ==
  hslToHex(adjustLoop(rgbToHsl(hexToRgb(color)), 0, background, 2).hsl)

adjustColorForContrast(color, background) ==
  hslToHex(adjustLoop(rgbToHsl(hexToRgb(color)), 0, background, maxAttempts).hsl)

lightenColor(color) ==
  LET hsl == rgbToHsl(hexToRgb(color))
  IN hslToHex([h |-> hsl.h,
               s |-> Max2(<<1, 5>>, Minus(hsl.s, <<3, 10>>)),
               l |-> Min2(<<19, 20>>, Plus(hsl.l, <<3, 10>>))])

\* lightContrast > 1.5
MoreThanOneAndAHalf(ratio) == 2 * ratio[1] > 3 * ratio[2]

\* validateAccessibility; adjustColorForContrast and lightenColor start
\* with a require, which throws where require is not defined.
validateAccessibility(palette, req) ==
  LET fixPrimary == ~meetsAccessibilityStandards(palette.primary, White)
      fixSecondary == ~meetsAccessibilityStandards(palette.secondary, White)
      fixLight == MoreThanOneAndAHalf(getContrastRatio(palette.light, White))
  IN IF ~req /\ (fixPrimary \/ fixSecondary \/ fixLight)
     THEN [threw |-> TRUE, palette |-> NoPalette]
     ELSE [threw |-> FALSE,
           palette |->
             [primary |-> IF fixPrimary
                          THEN adjustColorForContrast(palette.primary, White)
                          ELSE palette.primary,
              secondary |-> IF fixSecondary
                            THEN adjustColorForContrast(palette.secondary, White)
                            ELSE palette.secondary,
              light |-> IF fixLight THEN lightenColor(palette.light)
                        ELSE palette.light,
              contrast |-> palette.contrast]]

darkenColor(color) ==
  LET hsl == rgbToHsl(hexToRgb(color))
  IN hslToHex([h |-> hsl.h,
               s |-> Min2(Num(1), Plus(hsl.s, <<1, 20>>)),
               l |-> Max2(<<1, 10>>, Minus(hsl.l, <<1, 10>>))])

(***************************************************************************)
(* ThemeManager (lib/theme-manager.ts) and the event loop it runs on.      *)
(*   css                 the inline custom properties of the root element  *)
(*                       (<<>> while unset) and its theme-transitioning    *)
(*                       class                                             *)
(*   currentState        accentColors and imageInfluence of the manager    *)
(*   transitionDuration  the field of the same name, in milliseconds       *)
(*   ops                 the analyzeAndApplyTheme and resetToDefaultTheme  *)
(*                       calls, in the order they were started             *)
(*   microtasks          the calls whose continuation after                *)
(*                       `await extractDominantColors` is queued           *)
(*   transitions         the pending setTimeout of applyTheme: the call    *)
(*                       and the milliseconds left, in creation order      *)
(*   requireDefined      whether `require` exists where the bundle runs    *)
(*   page                the document the theme-init script runs in: the   *)
(*                       first img[data-theme-source] ("none" without      *)
(*                       one), whether it is complete, the load listeners  *)
(*                       added to it, and whether the script has run       *)
(* baseTheme never changes and lastUpdated is only written.                *)
(***************************************************************************)
DefaultTransition == 300

\* The durations setTransitionDuration is called with.
Durations == {100, DefaultTransition}

\* Calls of analyzeAndApplyTheme and resetToDefaultTheme in one run.
MaxOps == 2

\* The images analysed: a red one, a green one, one with only near-white
\* pixels, and one whose canvas is tainted (getImageData throws).
Images == {"hero", "logo", "blank", "tainted"}

Pixel(r, g, b) == [r |-> r, g |-> g, b |-> b, a |-> 255]

NearWhite == Pixel(250, 250, 250)

\* What the canvas holds of an image: the pixels extractColors samples.
Image(name) ==
  CASE name = "hero" ->
         [tainted |-> FALSE,
          pixels |-> <<NearWhite, Pixel(200, 30, 30), Pixel(200, 30, 30)>>]
    [] name = "logo" ->
         [tainted |-> FALSE,
          pixels |-> <<Pixel(30, 160, 90), NearWhite, Pixel(30, 160, 90)>>]
    [] name = "blank" ->
         [tainted |-> FALSE, pixels |-> <<NearWhite, NearWhite>>]
    [] OTHER -> [tainted |-> TRUE, pixels |-> <<>>]

\* The palette generated of the extracted colors e, and the palettes
\* validated of it where require is defined and where it is not.
generatedOf(e) ==
  IF e.ok
  THEN generateAccentPalette(IF Len(e.vibrant) > 0 THEN e.vibrant ELSE e.dominant)
  ELSE [threw |-> TRUE, palette |-> NoPalette]

validatedOf(g) ==
  [req \in BOOLEAN |->
     IF g.threw THEN [threw |-> TRUE, palette |-> NoPalette]
     ELSE validateAccessibility(g.palette, req)]

analysisOf(e) ==
  [e |-> e, g |-> generatedOf(e), v |-> validatedOf(generatedOf(e))]

\* The first three steps of analyzeAndApplyTheme on each image, computed
\* once: the extracted colors e, the generated palette g, and the validated
\* palette v where require is defined and where it is not.
Analysis ==
  [img \in Images |-> analysisOf(extractDominantColors(Image(img)))]

\* darkenColor of the primary colors that are applied, computed once.
\* analysed holds both tables for the pages of a behaviour, and nothing
\* where no image is analysed.
Hover ==
  [color \in ({defaultAccents.primary}
                \cup {Analysis[img].v[TRUE].palette.primary : img \in Images})
               \ {<<>>} |->
     darkenColor(color)]

Css0 ==
  [accentPrimary |-> <<>>, accentSecondary |-> <<>>, accentLight |-> <<>>,
   accentHover |-> <<>>, primary |-> <<>>, primaryHover |-> <<>>,
   primaryLight |-> <<>>, transitioning |-> FALSE]

\* applyTheme(palette, true) up to its await: the class and the custom
\* properties; darkenColor starts with a require, and where that throws
\* only the three properties before it are written.
applyTheme(c, palette, req) ==
  IF req
  THEN [threw |-> FALSE,
        css |-> [accentPrimary |-> palette.primary,
                 accentSecondary |-> palette.secondary,
                 accentLight |-> palette.light,
                 accentHover |-> analysed.hover[palette.primary],
                 primary |-> palette.primary,
                 primaryHover |-> analysed.hover[palette.primary],
                 primaryLight |-> palette.light,
                 transitioning |-> TRUE]]
  ELSE [threw |-> TRUE,
        css |-> [c EXCEPT !.transitioning = TRUE,
                          !.accentPrimary = palette.primary,
                          !.accentSecondary = palette.secondary,
                          !.accentLight = palette.light]]

\* A call is running until its promise settles.
Running(o) == o.phase \in {"extracting", "applying"}

NewOp(kind, img) ==
  [kind |-> kind, img |-> img, phase |-> "extracting", palette |-> NoPalette,
   influence |-> FALSE,
   overlaps |-> \E i \in 1..Len(ops) : Running(ops[i]),
   by |-> "call"]

\* resetToDefaultTheme for call number id once applyTheme has returned a:
\* the call is rejected where applyTheme threw, and waits for the end of the
\* transition otherwise.  A call made from outside is new in ops.
resetApplied(a, id, o) ==
  LET put(x) == IF id > Len(ops) THEN Append(ops, x)
                ELSE [ops EXCEPT ![id] = x] IN
  /\ css' = a.css
  /\ IF a.threw
     THEN /\ ops' = put([o EXCEPT !.phase = "rejected"])
          /\ UNCHANGED transitions
     ELSE /\ ops' = put([o EXCEPT !.phase = "applying",
                                  !.palette = defaultAccents,
                                  !.influence = FALSE])
          /\ transitions' = Append(transitions,
                                   [op |-> id, remaining |-> transitionDuration])

\* resetToDefaultTheme up to the await inside applyTheme, for call number id
\* with the css as it is at that moment.
resetStart(c, id, o) ==
  resetApplied(applyTheme(c, defaultAccents, requireDefined), id, o)

\* analyzeAndApplyTheme up to its first await.
AnalyzeAndApplyTheme == \E img \in Images :
  /\ Len(ops) < MaxOps
  /\ ops' = Append(ops, NewOp("analyze", img))
  /\ microtasks' = Append(microtasks, Len(ops) + 1)
  /\ UNCHANGED <<css, currentState, transitionDuration, transitions,
                 requireDefined, page, cpVars, editorVars, colorVars, slugVars, siteVars>>

ResetToDefaultTheme ==
  /\ Len(ops) < MaxOps
  /\ resetApplied(applyTheme(css, defaultAccents, requireDefined),
                  Len(ops) + 1, NewOp("reset", ""))
  /\ UNCHANGED <<currentState, transitionDuration, microtasks, requireDefined,
                 page, cpVars, editorVars, colorVars, slugVars, siteVars>>

\* analyzeAndApplyTheme for call number id once the three steps have given
\* an and applyTheme has returned a: the catch block where one of them threw,
\* the wait for the end of the transition otherwise.
analyzeApplied(an, a, id, o) ==
  IF ~an.e.ok \/ an.g.threw \/ an.v[requireDefined].threw
  THEN resetStart(css, id, o)
  ELSE IF a.threw
  THEN resetStart(a.css, id, o)
  ELSE /\ css' = a.css
       /\ ops' = [ops EXCEPT ![id] = [o EXCEPT !.phase = "applying",
                                               !.palette = an.v[requireDefined].palette,
                                               !.influence = TRUE]]
       /\ transitions' = Append(transitions,
                                [op |-> id, remaining |-> transitionDuration])

analyzeSteps(an, id, o) ==
  analyzeApplied(an, applyTheme(css, an.v[requireDefined].palette, requireDefined),
                 id, o)

\* The rest of the try block of analyzeAndApplyTheme up to the await inside
\* applyTheme, and the catch block where one of the steps throws.
AnalyzeContinue ==
  /\ microtasks # <<>>
  /\ microtasks' = Tail(microtasks)
  /\ analyzeSteps(analysed.of[ops[Head(microtasks)].img], Head(microtasks),
                  ops[Head(microtasks)])
  /\ UNCHANGED <<currentState, transitionDuration, requireDefined, page, cpVars,
                 editorVars, colorVars, slugVars, siteVars>>

SetTransitionDuration == \E duration \in Durations :
  /\ transitionDuration' = duration
  /\ UNCHANGED <<css, currentState, ops, microtasks, transitions,
                 requireDefined, page, cpVars, editorVars, colorVars, slugVars, siteVars>>

Due(i) == transitions[i].remaining = 0

Remove(seq, i) == SubSeq(seq, 1, i - 1) \o SubSeq(seq, i + 1, Len(seq))

\* Time passes up to the next timer that is due.
Wait ==
  /\ microtasks = <<>>
  /\ transitions # <<>>
  /\ \A i \in 1..Len(transitions) : ~Due(i)
  /\ LET d == CHOOSE n \in {transitions[i].remaining : i \in 1..Len(transitions)} :
                \A i \in 1..Len(transitions) : n <= transitions[i].remaining IN
     transitions' = [i \in 1..Len(transitions) |->
                       [transitions[i] EXCEPT !.remaining = @ - d]]
  /\ UNCHANGED <<css, currentState, transitionDuration, ops, microtasks,
                 requireDefined, page, cpVars, editorVars, colorVars, slugVars, siteVars>>

\* The timer of applyTheme fires (the oldest of the due ones): applyTheme
\* removes the class and returns, and the call that awaited it writes
\* currentState.
TransitionEnd == \E i \in 1..Len(transitions) :
  /\ microtasks = <<>>
  /\ Due(i)
  /\ \A j \in 1..(i - 1) : ~Due(j)
  /\ LET id == transitions[i].op IN
     /\ css' = [css EXCEPT !.transitioning = FALSE]
     /\ currentState' = [accentColors |-> ops[id].palette,
                         imageInfluence |-> ops[id].influence]
     /\ ops' = [ops EXCEPT ![id].phase = "done"]
  /\ transitions' = Remove(transitions, i)
  /\ UNCHANGED <<transitionDuration, microtasks, requireDefined, page, cpVars,
                 editorVars, colorVars, slugVars, siteVars>>

\* initializeThemeSystem with the options of the theme-init script
\* (autoDetect, the default selector, transitionDuration 300) on the one
\* manager of getThemeManager: the first marked image is analysed at once
\* when it is complete, otherwise a load listener is added to it.
initializeThemeSystem ==
  /\ Len(ops) + (IF page.complete THEN 0 ELSE page.listeners) < MaxOps
  /\ transitionDuration' = DefaultTransition
  /\ IF page.source = "none"
     THEN UNCHANGED <<ops, microtasks>>
     ELSE IF page.complete
     THEN /\ ops' = Append(ops, [NewOp("analyze", page.source) EXCEPT !.by = "init"])
          /\ microtasks' = Append(microtasks, Len(ops) + 1)
     ELSE UNCHANGED <<ops, microtasks>>
  /\ UNCHANGED <<css, currentState, transitions, requireDefined, cpVars,
                 editorVars, colorVars, slugVars, siteVars>>

\* The theme-init script runs: initTheme at once, or on DOMContentLoaded
\* while the document is loading, and a listener for 'astro:page-load'.
DomReady ==
  /\ ~page.started
  /\ initializeThemeSystem
  /\ page' = [page EXCEPT !.started = TRUE,
                          !.listeners = IF page.source # "none" /\ ~page.complete
                                        THEN @ + 1 ELSE @]

\* 'astro:page-load' is dispatched: initTheme again.
AstroPageLoad ==
  /\ page.started
  /\ initializeThemeSystem
  /\ page' = [page EXCEPT !.listeners = IF page.source # "none" /\ ~page.complete
                                        THEN @ + 1 ELSE @]

\* The load event of the image: every listener added calls
\* analyzeAndApplyTheme.
ImageLoad ==
  /\ page.source # "none"
  /\ ~page.complete
  /\ page' = [page EXCEPT !.complete = TRUE]
  /\ ops' = ops \o [i \in 1..page.listeners |->
                      [NewOp("analyze", page.source)
                         EXCEPT !.by = "init", !.overlaps = @ \/ i > 1]]
  /\ microtasks' = microtasks \o [i \in 1..page.listeners |-> Len(ops) + i]
  /\ UNCHANGED <<css, currentState, transitionDuration, transitions,
                 requireDefined, cpVars, editorVars, colorVars, slugVars, siteVars>>

NoPage == [source |-> "none", complete |-> FALSE, listeners |-> 0,
           started |-> FALSE]

(***************************************************************************)
(* theme-utils.ts: applyAccentColor and what it uses.                      *)
(***************************************************************************)
\* '#2563eb', '#3b82f6', '#eff6ff', '#1d4ed8', '#ffffff'
DEFAULT_ACCENT_PALETTE ==
  [primary |-> <<2, 5, 6, 3, 14, 11>>, secondary |-> <<3, 11, 8, 2, 15, 6>>,
   light |-> <<14, 15, 15, 6, 15, 15>>, hover |-> <<1, 13, 4, 14, 13, 8>>,
   contrast |-> White]

\* rgbToHex of theme-utils:
\* ((1 << 24) + (r << 16) + (g << 8) + b).toString(16).slice(1)
utilsRgbToHex(r, g, b) == Tail(Digits16(16777216 + r * 65536 + g * 256 + b))

\* getLuminance, in units of 1e-8; 0 for a string hexToRgb does not take.
getLuminance(hex) ==
  IF hexToRgbThrows(hex) THEN 0 ELSE getRelativeLuminance(hexToRgb(hex))

utilsGetContrastRatio(color1, color2) ==
  LET lum1 == getLuminance(color1)
      lum2 == getLuminance(color2)
      brightest == IF lum1 > lum2 THEN lum1 ELSE lum2
      darkest == IF lum1 > lum2 THEN lum2 ELSE lum1
  IN <<brightest + 5000000, darkest + 5000000>>

utilsMeetsAccessibilityStandards(foreground, background) ==
  AtLeastAA(utilsGetContrastRatio(foreground, background))

\* Math.floor(x * 0.9) and Math.floor(x * 0.8) for x in 0..255
generateColorVariations(baseColor) ==
  LET rgb == hexToRgb(baseColor)
      lighter(x) == IF x + ((255 - x) * 9) \div 10 > 255 THEN 255
                    ELSE x + ((255 - x) * 9) \div 10
      darker(x) == (x * 8) \div 10
  IN IF hexToRgbThrows(baseColor)
     THEN [light |-> DEFAULT_ACCENT_PALETTE.light,
           hover |-> DEFAULT_ACCENT_PALETTE.hover,
           contrast |-> DEFAULT_ACCENT_PALETTE.contrast]
     ELSE [light |-> utilsRgbToHex(lighter(rgb.r), lighter(rgb.g), lighter(rgb.b)),
           hover |-> utilsRgbToHex(darker(rgb.r), darker(rgb.g), darker(rgb.b)),
           contrast |-> IF utilsMeetsAccessibilityStandards(White, baseColor)
                        THEN White ELSE DarkContrast]

\* updateThemeVariables
updateThemeVariables(c, palette) ==
  [c EXCEPT !.accentPrimary = palette.primary,
            !.accentSecondary = palette.secondary,
            !.accentLight = palette.light,
            !.accentHover = palette.hover,
            !.primary = palette.primary,
            !.primaryHover = palette.hover,
            !.primaryLight = palette.light]

\* applyAccentColor: the palette it returns and the css it leaves.
applyAccentColor(c, baseColor) ==
  IF hexToRgbThrows(baseColor)
  THEN [palette |-> DEFAULT_ACCENT_PALETTE, css |-> c]
  ELSE LET variations == generateColorVariations(baseColor)
           palette ==
             [primary |-> IF utilsMeetsAccessibilityStandards(baseColor, White)
                          THEN baseColor ELSE DEFAULT_ACCENT_PALETTE.primary,
              secondary |-> baseColor,
              light |-> variations.light,
              hover |-> variations.hover,
              contrast |-> variations.contrast]
       IN [palette |-> palette, css |-> updateThemeVariables(c, palette)]

(***************************************************************************)
(* The color pipeline on one swatch: an image of one color on a near-white *)
(* background goes through the steps of analyzeAndApplyTheme, or its color *)
(* is handed to applyAccentColor.  lab holds the color (pixel), the step   *)
(* reached (stage) and what each step returned.                            *)
(***************************************************************************)
\* The channel values of the swatches.
Channels == {0, 32, 64, 96, 128, 160, 192, 224, 255}

Swatch(pixel) ==
  [tainted |-> FALSE,
   pixels |-> <<NearWhite, Pixel(pixel.r, pixel.g, pixel.b),
                Pixel(pixel.r, pixel.g, pixel.b)>>]

NoColors == [ok |-> FALSE, dominant |-> <<>>, vibrant |-> <<>>, muted |-> <<>>]

NoResult == [threw |-> FALSE, palette |-> NoPalette]

NoLab ==
  [stage |-> "none", pixel |-> [r |-> 0, g |-> 0, b |-> 0], e |-> NoColors,
   g |-> NoResult, v |-> NoResult, attempts |-> 0, lightness |-> <<0, 1>>,
   applied |-> NoPalette,
   utils |-> NoPalette @@ [hover |-> <<>>]]

ExtractStep ==
  /\ lab.stage = "image"
  /\ lab' = [lab EXCEPT !.stage = "extracted",
                        !.e = extractDominantColors(Swatch(lab.pixel))]
  /\ UNCHANGED <<cpVars, editorVars, themeVars, analysed, slugVars, siteVars>>

GenerateStep ==
  /\ lab.stage = "extracted"
  /\ lab' = [lab EXCEPT !.stage = "generated",
                        !.g = generateAccentPalette(
                                IF Len(lab.e.vibrant) > 0 THEN lab.e.vibrant
                                ELSE lab.e.dominant)]
  /\ UNCHANGED <<cpVars, editorVars, themeVars, analysed, slugVars, siteVars>>

\* validateAccessibility, and the palette that analyzeAndApplyTheme then
\* applies and stores; attempts is the number of darkening steps made on
\* the primary color.
validatedLab(v, loop) ==
  [lab EXCEPT !.stage = "validated", !.v = v, !.applied = v.palette,
              !.attempts = loop.attempts, !.lightness = loop.hsl.l]

\* validateAccessibility of the generated palette; `attempts` and
\* `lightness` are those of the darkening loop on the primary.
ValidateStep ==
  /\ lab.stage = "generated"
  /\ ~lab.g.threw
  /\ lab' = validatedLab(validateAccessibility(lab.g.palette, TRUE),
                         adjustLoop(rgbToHsl(hexToRgb(lab.g.palette.primary)),
                                    0, White, maxAttempts))
  /\ UNCHANGED <<cpVars, editorVars, themeVars, analysed, slugVars, siteVars>>

\* The catch block of analyzeAndApplyTheme after generateAccentPalette
\* threw: resetToDefaultTheme.
FallbackStep ==
  /\ lab.stage = "generated"
  /\ lab.g.threw
  /\ lab' = [lab EXCEPT !.stage = "fallback", !.applied = defaultAccents]
  /\ UNCHANGED <<cpVars, editorVars, themeVars, analysed, slugVars, siteVars>>

ApplyAccentColor ==
  /\ lab.stage = "image"
  /\ LET a == applyAccentColor(css, utilsRgbToHex(lab.pixel.r, lab.pixel.g,
                                                  lab.pixel.b)) IN
     /\ lab' = [lab EXCEPT !.stage = "utils", !.utils = a.palette]
     /\ css' = a.css
  /\ UNCHANGED <<cpVars, editorVars, currentState, transitionDuration, ops,
                 microtasks, transitions, requireDefined, page, analysed, slugVars, siteVars>>

NotAnalysed == [of |-> <<>>, hover |-> <<>>]

(***************************************************************************)
(* The save endpoint (pages/api/blog/save.ts): generateSlug.  A string is  *)
(* a sequence of characters.  post holds a title, the slug generateSlug    *)
(* makes of it, and the slug it makes of that slug.                        *)
(***************************************************************************)
UpperCase ==
  <<"A", "B", "C", "D", "E", "F", "G", "H", "I", "J", "K", "L", "M", "N", "O",
    "P", "Q", "R", "S", "T", "U", "V", "W", "X", "Y", "Z", "É">>

LowerCase ==
  <<"a", "b", "c", "d", "e", "f", "g", "h", "i", "j", "k", "l", "m", "n", "o",
    "p", "q", "r", "s", "t", "u", "v", "w", "x", "y", "z", "é">>

\* String.prototype.toLowerCase
toLowerCase(text) ==
  [i \in 1..Len(text) |->
     IF \E j \in 1..Len(UpperCase) : UpperCase[j] = text[i]
     THEN LowerCase[CHOOSE j \in 1..Len(UpperCase) : UpperCase[j] = text[i]]
     ELSE text[i]]

\* The character class [a-z0-9]
AlphaNumeric ==
  {LowerCase[j] : j \in 1..26}
    \cup {"0", "1", "2", "3", "4", "5", "6", "7", "8", "9"}

\* replace(/[^a-z0-9]+/g, '-') from index i on; inRun says that text[i - 1]
\* belongs to a match.
RECURSIVE replaceRuns(_, _, _)
replaceRuns(text, i, inRun) ==
  IF i > Len(text) THEN <<>>
  ELSE IF text[i] \in AlphaNumeric
  THEN <<text[i]>> \o replaceRuns(text, i + 1, FALSE)
  ELSE (IF inRun THEN <<>> ELSE <<"-">>) \o replaceRuns(text, i + 1, TRUE)

\* replace(/^-+|-+$/g, '')
RECURSIVE trimHyphens(_)
trimHyphens(text) ==
  IF text = <<>> THEN text
  ELSE IF Head(text) = "-" THEN trimHyphens(Tail(text))
  ELSE IF text[Len(text)] = "-" THEN trimHyphens(SubSeq(text, 1, Len(text) - 1))
  ELSE text

\* generateSlug with replace(/[^a-z0-9]/g, '-'), every character on its own.
generateSlugEach(title) ==
  trimHyphens([i \in 1..Len(title) |->
                 IF toLowerCase(title)[i] \in AlphaNumeric
                 THEN toLowerCase(title)[i] ELSE "-"])

generateSlug(title) == trimHyphens(replaceRuns(toLowerCase(title), 1, FALSE))

\* The characters titles are made of, and how long a title gets.
TitleChars == {"a", "B", "7", " ", "-", "É"}

MaxTitle == 4

\* "React vs Vue: A Comparison"
ExampleTitle ==
  <<"R", "e", "a", "c", "t", " ", "v", "s", " ", "V", "u", "e", ":", " ", "A",
    " ", "C", "o", "m", "p", "a", "r", "i", "s", "o", "n">>

NoPost == [stage |-> "none", title |-> <<>>, slug |-> <<>>, again |-> <<>>]

\* The handler makes the slug of the title of the post.
GenerateSlug ==
  /\ post.stage = "title"
  /\ post' = [post EXCEPT !.stage = "slug", !.slug = generateSlug(post.title)]
  /\ UNCHANGED <<cpVars, editorVars, themeVars, colorVars, siteVars>>

\* The post is saved again under its slug as title.
GenerateSlugAgain ==
  /\ post.stage = "slug"
  /\ post' = [post EXCEPT !.stage = "again", !.again = generateSlug(post.slug)]
  /\ UNCHANGED <<cpVars, editorVars, themeVars, colorVars, siteVars>>

(***************************************************************************)
(* The middleware: the routes the site protects.  A pathname is the        *)
(* sequence of its characters.                                             *)
(***************************************************************************)
AdminPath == <<"/", "a", "d", "m", "i", "n">>

ApiPath == <<"/", "a", "p", "i">>

BlogPath == <<"/", "b", "l", "o", "g">>

SavePath == <<"/", "s", "a", "v", "e">>

UploadPath == <<"/", "u", "p", "l", "o", "a", "d">>

ListPath == <<"/", "l", "i", "s", "t">>

ImagePath == <<"/", "i", "m", "a", "g", "e">>

PostPath == <<"/", "m", "y", "-", "p", "o", "s", "t">>

adminRoutes == <<AdminPath, ApiPath \o BlogPath \o SavePath, ApiPath \o UploadPath>>

publicApiRoutes == <<ApiPath \o BlogPath \o ListPath>>

\* String.prototype.startsWith
startsWith(text, prefix) ==
  /\ Len(prefix) <= Len(text)
  /\ SubSeq(text, 1, Len(prefix)) = prefix

\* routes.some(route => pathname.startsWith(route))
someRoute(routes, pathname) ==
  \E i \in 1..Len(routes) : startsWith(pathname, routes[i])

\* pathname.match(/^\/api\/blog\/[^/]+$/): "/api/blog/" and then one or
\* more characters, none of them a slash, up to the end.
matchBlogSlug(pathname) ==
  LET head == ApiPath \o BlogPath \o <<"/">> IN
  /\ startsWith(pathname, head)
  /\ Len(pathname) > Len(head)
  /\ \A i \in (Len(head) + 1)..Len(pathname) : pathname[i] # "/"

NotFound == [status |-> 404, next |-> FALSE]

\* next(): the answer is the one of the downstream handler.
Downstream == [status |-> 0, next |-> TRUE]

\* The middleware without its second test.
onRequestAdminOnly(pathname, isDevelopment) ==
  IF someRoute(adminRoutes, pathname) /\ ~isDevelopment THEN NotFound
  ELSE Downstream

onRequest(pathname, isDevelopment) ==
  LET isAdminRoute == someRoute(adminRoutes, pathname)
      isPublicApi == someRoute(publicApiRoutes, pathname) IN
  IF isAdminRoute /\ ~isDevelopment THEN NotFound
  ELSE IF matchBlogSlug(pathname) /\ ~isDevelopment THEN NotFound
  ELSE Downstream

\* The requests: a pathname is made of up to MaxPieces pieces.
MaxPieces == 3

Pieces == {AdminPath, ApiPath, BlogPath, SavePath, UploadPath, ListPath,
           ImagePath, PostPath, <<"/">>, <<"s">>}

RECURSIVE Join(_, _)
Join(pieces, i) ==
  IF i > Len(pieces) THEN <<>> ELSE pieces[i] \o Join(pieces, i + 1)

Pathnames ==
  {Join(ps, 1) : ps \in {q \in UNION {[1..n -> Pieces] : n \in 1..MaxPieces} :
                            q[1][1] = "/"}}

NoRequest == [stage |-> "idle", dev |-> FALSE, pathname |-> <<>>,
              response |-> [status |-> 0, next |-> FALSE]]

\* A request arrives at the server.
Request ==
  /\ web.stage = "idle"
  /\ \E pathname \in Pathnames :
       web' = [web EXCEPT !.stage = "request", !.pathname = pathname,
                          !.response = NoRequest.response]
  /\ UNCHANGED <<cpVars, editorVars, themeVars, colorVars, slugVars, perf>>

\* The middleware answers it or hands it on.
OnRequest ==
  /\ web.stage = "request"
  /\ web' = [web EXCEPT !.stage = "done",
                        !.response = onRequest(web.pathname, web.dev)]
  /\ UNCHANGED <<cpVars, editorVars, themeVars, colorVars, slugVars, perf>>

(***************************************************************************)
(* ProductionPerformanceMonitor.  `raf` is the number of callbacks that    *)
(* requestAnimationFrame holds for the next frame (they are all the same   *)
(* closure over the monitor), `now` is performance.now(), `added` the      *)
(* number of entries the last frame pushed on frameTimes.                  *)
(***************************************************************************)
minFps == 55

maxFrameTime == 18

WindowSize == 60

MaxCalls == 4

MaxFrames == 3

FrameDurations == {16, 20}

NoMonitor ==
  [isMonitoring |-> FALSE, frameCount |-> 0, lastTime |-> 0,
   frameTimes |-> <<>>, raf |-> 0, now |-> 0, added |-> 0, calls |-> 0,
   frames |-> 0, ret |-> "none"]

RECURSIVE SumOf(_, _)
SumOf(s, i) == IF i > Len(s) THEN 0 ELSE s[i] + SumOf(s, i + 1)

monitorFrame(m) ==
  IF ~m.isMonitoring THEN m
  ELSE LET frameTime == m.now - m.lastTime
           pushed == Append(m.frameTimes, frameTime)
           kept == IF Len(pushed) > WindowSize THEN Tail(pushed) ELSE pushed IN
       [m EXCEPT !.frameTimes = IF m.frameCount > 0 THEN kept ELSE @,
                 !.added = IF m.frameCount > 0 THEN @ + 1 ELSE @,
                 !.frameCount = @ + 1, !.lastTime = m.now, !.raf = @ + 1]

startMonitoring(m) ==
  IF m.isMonitoring THEN m
  ELSE monitorFrame([m EXCEPT !.isMonitoring = TRUE, !.frameCount = 0,
                              !.frameTimes = <<>>, !.lastTime = m.now])

\* The data stopMonitoring returns: fps and frameTime in hundredths, and
\* whether the issue callback is called.
PerformanceData(frameTimes) ==
  LET avgFrameTime == <<SumOf(frameTimes, 1), Len(frameTimes)>>
      fps == <<1000 * avgFrameTime[2], avgFrameTime[1]>> IN
  IF avgFrameTime[1] = 0
  THEN [fps |-> "Infinity", frameTime |-> 0, issue |-> FALSE]
  ELSE [fps |-> Round(<<100 * fps[1], fps[2]>>),
        frameTime |-> Round(<<100 * avgFrameTime[1], avgFrameTime[2]>>),
        issue |-> Less(fps, <<minFps, 1>>)
                    \/ Less(<<maxFrameTime, 1>>, avgFrameTime)]

stopMonitoring(m) ==
  IF ~m.isMonitoring THEN [m EXCEPT !.ret = "null"]
  ELSE IF Len(m.frameTimes) = 0
       THEN [m EXCEPT !.isMonitoring = FALSE, !.ret = "null"]
  ELSE [m EXCEPT !.isMonitoring = FALSE,
                 !.ret = PerformanceData(m.frameTimes)]

\* The callbacks of one frame, in the order they were requested.
RECURSIVE runCallbacks(_, _)
runCallbacks(m, n) ==
  IF n = 0 THEN m ELSE runCallbacks(monitorFrame(m), n - 1)

StartMonitoring ==
  /\ perf.calls < MaxCalls
  /\ perf' = [startMonitoring(perf) EXCEPT !.calls = @ + 1, !.ret = "none"]
  /\ UNCHANGED <<cpVars, editorVars, themeVars, colorVars, slugVars, web>>

StopMonitoring ==
  /\ perf.calls < MaxCalls
  /\ perf' = [stopMonitoring(perf) EXCEPT !.calls = @ + 1]
  /\ UNCHANGED <<cpVars, editorVars, themeVars, colorVars, slugVars, web>>

\* The browser renders a frame: the callbacks requested before it run, and
\* those they request wait for the next frame.
AnimationFrame ==
  /\ perf.frames < MaxFrames
  /\ \E d \in FrameDurations :
       perf' = runCallbacks([perf EXCEPT !.now = @ + d, !.frames = @ + 1,
                                         !.raf = 0, !.added = 0],
                            perf.raf)
  /\ UNCHANGED <<cpVars, editorVars, themeVars, colorVars, slugVars, web>>

SiteIdle ==
  /\ web = NoRequest
  /\ perf = NoMonitor

CPIdle ==
  /\ store = EmptyStore
  /\ clock = 0
  /\ last = NoCall

ThemeNew ==
  /\ css = Css0
  /\ currentState = [accentColors |-> defaultAccents, imageInfluence |-> FALSE]
  /\ transitionDuration = DefaultTransition
  /\ ops = <<>>
  /\ microtasks = <<>>
  /\ transitions = <<>>

\* Another part of the page may have left a record under a key of its own.
OtherRecord == Stringify(AutoSaveData(TestData, 0))

InitCP ==
  /\ store \in {EmptyStore, [EmptyStore EXCEPT ![OtherKey] = OtherRecord]}
  /\ clock = 0
  /\ last = NoCall
  /\ EditorIdle /\ ThemeNew
  /\ requireDefined = TRUE /\ page = NoPage /\ lab = NoLab
  /\ analysed = NotAnalysed
  /\ post = NoPost
  /\ SiteIdle

\* Before the first render; localStorage may hold the draft of an earlier
\* session.
InitEditor ==
  /\ store \in {EmptyStore,
                save(EmptyStore, EditorKey, PayloadOf(LoadedDoc), 0, "ok").store}
  /\ clock = 0
  /\ last = NoCall
  /\ EditorIdle
  /\ ThemeNew
  /\ requireDefined = TRUE
  /\ page = NoPage
  /\ lab = NoLab
  /\ analysed = NotAnalysed
  /\ post = NoPost
  /\ SiteIdle

\* The pages: without a marked image, and with the hero image marked,
\* loaded already or still loading when the script runs.
InitTheme ==
  /\ CPIdle /\ EditorIdle /\ ThemeNew
  /\ requireDefined \in BOOLEAN
  /\ page \in {NoPage, [NoPage EXCEPT !.source = "hero"],
                [NoPage EXCEPT !.source = "hero", !.complete = TRUE]}
  /\ lab = NoLab
  /\ analysed = [of |-> Analysis, hover |-> Hover]
  /\ post = NoPost
  /\ SiteIdle

NextTheme ==
  \/ AnalyzeAndApplyTheme \/ ResetToDefaultTheme \/ AnalyzeContinue
  \/ SetTransitionDuration \/ Wait \/ TransitionEnd
  \/ DomReady \/ AstroPageLoad \/ ImageLoad

SpecCP == InitCP /\ [][NextCP]_vars

SpecEditor == InitEditor /\ [][NextEditor]_vars

SpecTheme == InitTheme /\ [][NextTheme]_vars

InitColor ==
  /\ CPIdle /\ EditorIdle /\ ThemeNew
  /\ requireDefined = TRUE
  /\ page = NoPage
  /\ analysed = NotAnalysed
  /\ post = NoPost
  /\ SiteIdle
  /\ lab \in {[NoLab EXCEPT !.stage = "image",
                            !.pixel = [r |-> r, g |-> g, b |-> b]] :
                r \in Channels, g \in Channels, b \in Channels}

NextColor ==
  \/ ExtractStep \/ GenerateStep \/ ValidateStep \/ FallbackStep
  \/ ApplyAccentColor

SpecColor == InitColor /\ [][NextColor]_vars

InitSlug ==
  /\ CPIdle /\ EditorIdle /\ ThemeNew
  /\ requireDefined = TRUE
  /\ page = NoPage
  /\ lab = NoLab
  /\ analysed = NotAnalysed
  /\ \E n \in 0..MaxTitle :
       \E title \in [1..n -> TitleChars] \cup {ExampleTitle} :
         post = [NoPost EXCEPT !.stage = "title", !.title = title]
  /\ SiteIdle

NextSlug == GenerateSlug \/ GenerateSlugAgain

SpecSlug == InitSlug /\ [][NextSlug]_vars

InitMiddleware ==
  /\ CPIdle /\ EditorIdle /\ ThemeNew
  /\ requireDefined = TRUE
  /\ page = NoPage
  /\ lab = NoLab
  /\ analysed = NotAnalysed
  /\ post = NoPost
  /\ perf = NoMonitor
  /\ web \in {[NoRequest EXCEPT !.dev = isDevelopment] :
                isDevelopment \in BOOLEAN}

NextMiddleware == Request \/ OnRequest

SpecMiddleware == InitMiddleware /\ [][NextMiddleware]_vars

InitMonitor ==
  /\ CPIdle /\ EditorIdle /\ ThemeNew
  /\ requireDefined = TRUE
  /\ page = NoPage
  /\ lab = NoLab
  /\ analysed = NotAnalysed
  /\ post = NoPost
  /\ SiteIdle

NextMonitor == StartMonitoring \/ StopMonitoring \/ AnimationFrame

SpecMonitor == InitMonitor /\ [][NextMonitor]_vars

(***************************************************************************)
(* Properties of ContentPersistence, checked under SpecCP.                 *)
(***************************************************************************)
\* A text that save wrote: an object with an ISO timestamp and the version.
IsRecord(text) ==
  LET r == Parse(text) IN
  /\ r.ok
  /\ r.val.t = "obj"
  /\ Get(r.val, "timestamp").t = "str"
  /\ Get(r.val, "timestamp").v[1] = "iso"
  /\ Get(r.val, "version") = VERSION

RecordData(text) == Get(Parse(text).val, "data")

RecordTime(text) == Get(Parse(text).val, "timestamp").v[2]

\* A record saved more than the retention window before `now`.
StaleRecord(text, now) == IsRecord(text) /\ now - RecordTime(text) > MAX_AGE_HOURS

True == JBool(TRUE)

False == JBool(FALSE)

\* C1: load(k) immediately after a successful save(k, p) of a
\* JSON-serializable p returns a value equal to p (whatever was saved
\* under k before).
C1_LoadAfterSave ==
  [][(/\ last.op = "save" /\ last.ret = True /\ JsonSerializable(last.arg)
      /\ last'.op = "load" /\ last'.key = last.key /\ last'.mode = "ok")
     => (~last'.threw /\ last'.ret = last.arg)]_cpVars

\* A load has just returned the test payload from a record written at this
\* instant.
C1_Witness ==
  /\ last.op = "load" /\ last.mode = "ok"
  /\ IsRecord(last.before) /\ RecordTime(last.before) = clock
  /\ RecordData(last.before) = TestData
  /\ last.ret = TestData

\* C2: createBackup(k, p) followed by restoreBackup(k) returns p and
\* afterwards has(k + "-backup") is false while has(k) is true.
C2_BackupRestoreMoves ==
  [][(/\ last.op = "createBackup" /\ last.ret = True /\ JsonSerializable(last.arg)
      /\ last'.op = "restoreBackup" /\ last'.key = last.key /\ last'.mode = "ok")
     => (/\ ~last'.threw
         /\ last'.ret = last.arg
         /\ has(store', BackupKey(last'.key), "ok").ret = False
         /\ has(store', last'.key, "ok").ret = True)]_cpVars

\* C3: load(k) on a record saved more than 24 hours ago returns null and
\* removes the slot, so that has(k) is false afterwards (storage readable).
C3_StaleLoadPurges ==
  (last.op = "load" /\ last.mode = "ok" /\ StaleRecord(last.before, clock))
    => (/\ ~last.threw
        /\ last.ret = JNull
        /\ has(store, last.key, "ok").ret = False)

C3_Witness ==
  /\ last.op = "load" /\ last.mode = "ok"
  /\ StaleRecord(last.before, clock)
  /\ RecordData(last.before) = TestData
  /\ store[last.key] = NoItem

\* C4 as claimed: for a stale slot has(k) returns false, getAge(k) returns
\* null, and the access purges the slot.
C4_StaleAbsentToEveryAccess ==
  (last.op \in {"has", "getAge"} /\ last.mode = "ok"
     /\ StaleRecord(last.before, clock))
    => (/\ last.ret = (IF last.op = "has" THEN False ELSE JNull)
        /\ store[last.key] = NoItem)

\* C4 as amended: only load treats a stale record as absent and purges it;
\* has(k) returns true and getAge(k) returns the record's age in minutes
\* (more than 24 * 60), and neither touches the slot.
C4_StaleAbsentToLoadOnly ==
  (last.mode = "ok" /\ StaleRecord(last.before, clock))
    => (/\ last.op = "load" =>
             last.ret = JNull /\ store[last.key] = NoItem
        /\ last.op = "has" =>
             last.ret = True /\ store[last.key] = last.before
        /\ last.op = "getAge" =>
             /\ last.ret = JNum((clock - RecordTime(last.before)) * 60)
             /\ last.ret.v > MAX_AGE_HOURS * 60
             /\ store[last.key] = last.before)

C4_Witness ==
  /\ last.op = "getAge" /\ last.mode = "ok"
  /\ StaleRecord(last.before, clock)
  /\ last.ret.t = "num"
  /\ store[last.key] = last.before

\* C5: when the slot holds a text that is not a stored record, load(k)
\* returns null without throwing and deletes the slot.
C5_CorruptLoadPurges ==
  (last.op = "load" /\ last.mode = "ok"
     /\ last.before # NoItem /\ ~IsRecord(last.before))
    => (/\ ~last.threw
        /\ last.ret = JNull
        /\ has(store, last.key, "ok").ret = False)

\* C6: a save whose storage write fails returns false without throwing
\* and leaves the store as it was: what was stored under k is still
\* loadable with its old payload.
C6_FailedSaveKeepsStore ==
  [][(last'.op = "save" /\ last'.mode \in {"quota", "disabled"})
     => (/\ ~last'.threw
         /\ last'.ret = False
         /\ store' = store
         /\ load(store', last'.key, clock', "ok").ret
              = load(store, last'.key, clock, "ok").ret)]_cpVars

C6_Witness ==
  /\ last.op = "save" /\ last.mode = "quota" /\ last.ret = False
  /\ IsRecord(last.before) /\ RecordData(last.before) = TestData
  /\ load(store, last.key, clock, "ok").ret = TestData

\* C7: no ContentPersistence call throws to its caller, whatever the
\* storage does.
C7_NeverThrows == ~last.threw

\* The slots a call with caller key `key` may write or remove.
Touched(op, key) ==
  CASE op = "createBackup" -> {BackupKey(key)}
    [] op = "restoreBackup" -> {key, BackupKey(key)}
    [] OTHER -> {key}

KeyedOps == {"save", "load", "clear", "createBackup", "restoreBackup"}

\* C16 as stated: a save, load, clear, createBackup or restoreBackup call
\* with key k1 leaves the slot of every other key k2 unchanged.
C16_IndependentKeys ==
  [][last'.op \in KeyedOps
       => \A k2 \in AllKeys \ {last'.key} : store'[k2] = store[k2]]_cpVars

\* C16: a save, load or clear call with key k1 leaves every slot other than
\* that of k1 unchanged; createBackup(k1) and restoreBackup(k1) work on the
\* derived slot k1 + "-backup" too, and leave every slot other than those of
\* k1 and k1 + "-backup" unchanged.
C16_OtherSlotsKept ==
  [][last'.op \in KeyedOps
       => \A k2 \in AllKeys \ Touched(last'.op, last'.key) :
            store'[k2] = store[k2]]_cpVars

\* createBackup has just written the backup slot while records lie under
\* the key itself and under an unrelated key.
C16_Witness ==
  /\ last.op = "createBackup" /\ last.ret = True
  /\ store[BackupKey(last.key)] # last.before
  /\ store[last.key] # NoItem
  /\ store[OtherKey] = OtherRecord

\* The naming convention of autosave keys.
AutoSaveNamed(key) ==
  Includes(Text(key), AutosaveWord) \/ Includes(Text(key), EditorWord)

\* C17: listAutoSaves returns exactly the keys in the store that contain
\* 'autosave' or 'editor', each once, and no other key.
C17_ListsAutoSaveKeys ==
  (last.op = "listAutoSaves" /\ ~last.threw)
    => LET named == {k \in AllKeys : store[k] # NoItem /\ AutoSaveNamed(k)} IN
       /\ last.ret.t = "arr"
       /\ {last.ret.v[i] : i \in 1..Len(last.ret.v)}
            = {JStr(<<"key", k>>) : k \in named}
       /\ Len(last.ret.v) = Cardinality(named)

\* listAutoSaves has returned both autosave keys and left out the unrelated
\* key that is in the store.
C17_Witness ==
  /\ last.op = "listAutoSaves" /\ ~last.threw
  /\ Len(last.ret.v) = 2
  /\ store[OtherKey] # NoItem

\* C18: cleanupOldSaves removes every slot listAutoSaves enumerates whose
\* record is older than 24 hours, leaves every other slot unchanged and
\* returns the number of slots removed; repeated at once it removes nothing
\* and returns 0.
C18_CleanupRemovesOld ==
  [][(last'.op = "cleanupOldSaves" /\ ~last'.threw)
       => LET old == {k \in AllKeys : /\ store[k] # NoItem
                                      /\ AutoSaveNamed(k)
                                      /\ StaleRecord(store[k], clock)}
              again == cleanupOldSaves(store', clock', "ok") IN
          /\ store' = [k \in AllKeys |-> IF k \in old THEN NoItem ELSE store[k]]
          /\ last'.ret = JNum(Cardinality(old))
          /\ again.store = store'
          /\ again.ret = JNum(0)]_cpVars

\* cleanupOldSaves has removed two autosave slots and left the old record
\* under the unrelated key.
C18_Witness ==
  /\ last.op = "cleanupOldSaves" /\ last.ret = JNum(2)
  /\ store[TestKey] = NoItem
  /\ store[OtherKey] = OtherRecord
  /\ StaleRecord(store[OtherKey], clock)

(***************************************************************************)
(* Properties of BlogEditor, checked under SpecEditor.                     *)
(***************************************************************************)
\* C8: the autosave is debounced: every change of metadata or content
\* replaces the pending timer by a new 2-second timer, so at most one
\* autosave write is pending at any moment, and the timer writes
\* 'blog-editor-autosave' only after 2 seconds without a further edit, with
\* the metadata and content of the last edit.
C8_AutosaveDebounced ==
  /\ Cardinality(timers) <= 1
  /\ \A t \in timers : t.data = doc /\ t.remaining = AUTOSAVE_DELAY - quiet
  /\ ev.kind = "fire" =>
       /\ quiet = AUTOSAVE_DELAY
       /\ ev.data = doc
       /\ ev.ok => RecordData(store[EditorKey]) = PayloadOf(doc)

\* The timer of the second of two edits has written the slot.
C8_Witness ==
  /\ ev.kind = "fire" /\ ev.ok
  /\ edits = MaxEdits
  /\ doc.content = "b"
  /\ RecordData(store[EditorKey]) = PayloadOf(doc)

\* C9: once onSave has resolved and the drafts were cleared, and the user
\* makes no further edit, neither 'blog-editor-autosave' nor
\* 'blog-editor-autosave-backup' exists in the store.
C9_CommitDeletesDraft ==
  committed =>
    /\ store[EditorKey] = NoItem
    /\ store[BackupKey(EditorKey)] = NoItem

(***************************************************************************)
(* Properties of ThemeManager, checked under SpecTheme.                    *)
(***************************************************************************)
\* The palette a call applies when nothing else runs: the default palette
\* for a reset and for an analysis whose extraction fails.
PaletteOfOp(o) ==
  IF o.kind = "reset" \/ analysed.of[o.img].v[TRUE].threw THEN defaultAccents
  ELSE analysed.of[o.img].v[TRUE].palette

\* C10: theme operations are last-call-wins: when every call has completed
\* and the call started last was started while an earlier one was running,
\* the CSS accent variables and getState().accentColors are the palette of
\* the call started last (where require is defined, so that no call fails).
C10_LastCallWins ==
  (/\ requireDefined
   /\ Len(ops) >= 2
   /\ \A i \in 1..Len(ops) : ops[i].phase = "done"
   /\ ops[Len(ops)].overlaps)
    => LET p == PaletteOfOp(ops[Len(ops)]) IN
       /\ css.accentPrimary = p.primary
       /\ css.accentSecondary = p.secondary
       /\ css.accentLight = p.light
       /\ css.accentHover = analysed.hover[p.primary]
       /\ currentState.accentColors = p

\* C11: re-entrant theming calls are serialized: at no moment are two
\* analyzeAndApplyTheme runs that initializeThemeSystem started for the
\* same image both extracting or applying.
C11_OneRunPerImage ==
  \A i, j \in 1..Len(ops) :
    (/\ i < j
     /\ ops[i].by = "init" /\ ops[j].by = "init"
     /\ ops[i].kind = "analyze" /\ ops[j].kind = "analyze"
     /\ ops[i].img = ops[j].img)
      => ~(Running(ops[i]) /\ Running(ops[j]))

\* C14: an image without usable pixels falls back to the default palette:
\* when analyzeAndApplyTheme of such an image, the only call made, has
\* completed, getState().accentColors is the default palette and the CSS
\* variables carry its colors.
C14_EmptyFallsBack ==
  (/\ Len(ops) = 1
   /\ ops[1].kind = "analyze"
   /\ analysed.of[ops[1].img].e.ok
   /\ analysed.of[ops[1].img].e.dominant = <<>>
   /\ ops[1].phase = "done")
    => /\ currentState.accentColors = defaultAccents
       /\ css.accentPrimary = defaultAccents.primary
       /\ css.accentSecondary = defaultAccents.secondary
       /\ css.accentLight = defaultAccents.light

\* C15: the promise analyzeAndApplyTheme returns never rejects.
C15_AnalyzeNeverRejects ==
  \A i \in 1..Len(ops) : ops[i].kind = "analyze" => ops[i].phase # "rejected"


\* The contrast requirements on a palette made of the color `derived`.
PaletteHolds(palette, derived) ==
  /\ meetsAccessibilityStandards(palette.primary, White)
  /\ meetsAccessibilityStandards(palette.contrast, palette.primary)
  /\ ~meetsAccessibilityStandards(derived, White)
       => palette.primary = DEFAULT_ACCENT_PALETTE.primary

\* C12: every palette the theming code produces (the one applyAccentColor
\* returns, the one analyzeAndApplyTheme stores) has a primary of contrast
\* at least 4.5:1 against white and a contrast color of at least 4.5:1
\* against that primary, and a derived primary that fails is replaced by
\* '#2563eb'.
C12_PaletteContrast ==
  /\ lab.stage = "validated" => PaletteHolds(lab.applied, lab.g.palette.primary)
  /\ lab.stage = "utils"
       => PaletteHolds(lab.utils, utilsRgbToHex(lab.pixel.r, lab.pixel.g,
                                                lab.pixel.b))


\* C13: the accessibility correction never leaves a primary color that
\* still fails 4.5:1 against white: the palette analyzeAndApplyTheme stores
\* has a primary that meets it, within the attempts of the darkening loop,
\* or is the default palette in its entirety.
C13_NoFailingPrimary ==
  lab.stage = "validated"
    => /\ lab.attempts < maxAttempts
       /\ \/ meetsAccessibilityStandards(lab.applied.primary, White)
          \/ lab.applied = defaultAccents

\* A generated primary that failed and took more than two darkening steps.
C13_Witness ==
  /\ lab.stage = "validated"
  /\ ~meetsAccessibilityStandards(lab.g.palette.primary, White)
  /\ lab.attempts > 2
  /\ lab.applied.primary # lab.g.palette.primary
  /\ meetsAccessibilityStandards(lab.applied.primary, White)


\* A color of HSL saturation above 0.4.
Saturated(pixel) == Less(<<2, 5>>, rgbToHsl(pixel).s)

\* A hex string that denotes a color within the quantization step of pixel.
Near(hex, pixel) ==
  /\ ~hexToRgbThrows(hex)
  /\ Abs(hexToRgb(hex).r - pixel.r) <= 32
  /\ Abs(hexToRgb(hex).g - pixel.g) <= 32
  /\ Abs(hexToRgb(hex).b - pixel.b) <= 32

\* C19: for an image of one saturated color C on near-white, the first
\* dominant and the first vibrant color that extractDominantColors returns
\* are C within the quantization step of 32, and the primary that
\* analyzeAndApplyTheme derives from it has contrast at least 4.5:1 against
\* white.
C19_ExtractsTheColor ==
  Saturated(lab.pixel)
    => /\ lab.stage \in {"extracted", "generated", "validated", "fallback"}
            => /\ lab.e.ok
               /\ Len(lab.e.dominant) > 0 /\ Near(lab.e.dominant[1], lab.pixel)
               /\ Len(lab.e.vibrant) > 0 /\ Near(lab.e.vibrant[1], lab.pixel)
       /\ lab.stage # "fallback"
       /\ lab.stage = "validated"
            => meetsAccessibilityStandards(lab.applied.primary, White)


(***************************************************************************)
(* Properties of generateSlug, checked under SpecSlug.                     *)
(***************************************************************************)
\* The maximal runs of [a-z0-9] characters of a text, from index i on, with
\* the run that is being read.
RECURSIVE Words(_, _, _)
Words(text, i, word) ==
  IF i > Len(text) THEN (IF word = <<>> THEN <<>> ELSE <<word>>)
  ELSE IF text[i] \in AlphaNumeric THEN Words(text, i + 1, Append(word, text[i]))
  ELSE (IF word = <<>> THEN <<>> ELSE <<word>>) \o Words(text, i + 1, <<>>)

RECURSIVE Hyphenated(_)
Hyphenated(words) ==
  IF words = <<>> THEN <<>>
  ELSE IF Len(words) = 1 THEN words[1]
  ELSE words[1] \o <<"-">> \o Hyphenated(Tail(words))

\* "react-vs-vue-a-comparison"
ExampleSlug ==
  <<"r", "e", "a", "c", "t", "-", "v", "s", "-", "v", "u", "e", "-", "a", "-",
    "c", "o", "m", "p", "a", "r", "i", "s", "o", "n">>

\* C20: the slug is the lowercased title with each maximal run of characters
\* outside [a-z0-9] replaced by one hyphen and without leading and trailing
\* hyphens: it holds only [a-z0-9-], no leading, trailing or consecutive
\* hyphen, generateSlug leaves it unchanged, and "React vs Vue: A Comparison"
\* gives "react-vs-vue-a-comparison".
C20_SlugShape ==
  /\ post.stage \in {"slug", "again"}
       => /\ post.slug = Hyphenated(Words(toLowerCase(post.title), 1, <<>>))
          /\ \A i \in 1..Len(post.slug) : post.slug[i] \in AlphaNumeric \cup {"-"}
          /\ post.slug # <<>>
               => post.slug[1] # "-" /\ post.slug[Len(post.slug)] # "-"
          /\ \A i \in 1..(Len(post.slug) - 1) :
               ~(post.slug[i] = "-" /\ post.slug[i + 1] = "-")
          /\ post.title = ExampleTitle => post.slug = ExampleSlug
  /\ post.stage = "again" => post.again = post.slug

\* A title with a run of several characters outside [a-z0-9] in the middle
\* and one at the end has been made a slug, and the slug a slug again.
C20_Witness ==
  /\ post.stage = "again"
  /\ post.title = <<"B", " ", "-", "É">>
  /\ post.slug = <<"b">>
  /\ post.again = <<"b">>

(***************************************************************************)
(* Properties of the middleware, checked under SpecMiddleware.             *)
(***************************************************************************)
Answered == web.stage = "done"

\* A pathname of the form /api/blog/<slug>: the slug is one segment.
SlugForm(pathname) ==
  \E n \in 1..Len(pathname) :
    /\ SubSeq(pathname, 1, n) = <<"/", "a", "p", "i", "/", "b", "l", "o", "g", "/">>
    /\ n < Len(pathname)
    /\ \A i \in (n + 1)..Len(pathname) : pathname[i] # "/"

ProtectedPrefixes ==
  {<<"/", "a", "d", "m", "i", "n">>,
   <<"/", "a", "p", "i", "/", "b", "l", "o", "g", "/", "s", "a", "v", "e">>,
   <<"/", "a", "p", "i", "/", "u", "p", "l", "o", "a", "d">>}

Protected(pathname) ==
  \/ \E p \in ProtectedPrefixes :
       Len(p) <= Len(pathname) /\ \A i \in 1..Len(p) : pathname[i] = p[i]
  \/ SlugForm(pathname)

\* C21: in production every request to a protected pathname is answered
\* 404 without the downstream handler; in development every request is
\* handed to the downstream handler.
C21_ProductionBlocks ==
  Answered =>
    /\ (~web.dev /\ Protected(web.pathname))
         => (web.response.status = 404 /\ ~web.response.next)
    /\ web.dev => web.response.next

\* A slug route was answered 404 in production.
C21_Witness ==
  /\ Answered
  /\ ~web.dev
  /\ web.pathname = ApiPath \o BlogPath \o PostPath
  /\ web.response = NotFound

\* C29: in production a request to /api/blog/list is handed to the
\* downstream handler and is not answered 404.
C29_ListingPasses ==
  (Answered /\ ~web.dev /\ web.pathname = ApiPath \o BlogPath \o ListPath)
    => (web.response.next /\ web.response.status # 404)

(***************************************************************************)
(* Properties of the performance monitor, checked under SpecMonitor.       *)
(***************************************************************************)
\* C28: a rendered frame adds at most one entry to frameTimes, and while
\* the monitor is on at most one callback waits for the next frame.
C28_OneChain ==
  /\ perf.added <= 1
  /\ perf.isMonitoring => perf.raf <= 1

(***************************************************************************)
(* restoreBackup under failing storage, checked under SpecCP.              *)
(***************************************************************************)
HoldsPayload(text, p) == IsRecord(text) /\ RecordData(text) = p

\* C23: when the backup slot holds a valid record and restoreBackup(k)
\* returns, the payload of that record is stored under k or still under
\* k + "-backup", also when the write to k failed.
C23_RestoreKeepsPayload ==
  (/\ last.op = "restoreBackup"
   /\ ~last.threw
   /\ IsRecord(last.before)
   /\ ~StaleRecord(last.before, clock))
    => \/ HoldsPayload(store[last.key], RecordData(last.before))
       \/ HoldsPayload(store[BackupKey(last.key)], RecordData(last.before))

(***************************************************************************)
(* handleSave's failure path and the autosave timer, checked under         *)
(* SpecEditor.                                                             *)
(***************************************************************************)
\* C22: when the autosave timer has written the slot during the await of
\* onSave and onSave then rejects, the slot afterwards holds the content
\* the timer wrote.
C22_AutosaveSurvivesReject ==
  [][(/\ pending.active
      /\ ev.kind = "fire" /\ ev.ok
      /\ OnSaveReject)
     => HoldsPayload(store'[EditorKey], PayloadOf(ev.data))]_vars

\* C24: when onSave rejects after the backup was made (and restoreBackup
\* returns), the slot holds the submitted {metadata, content}, the backup
\* slot is absent, saveError shows the error and isSaving is false.
C24_RejectRestoresBackup ==
  [][(/\ pending.active
      /\ HoldsPayload(store[BackupKey(EditorKey)], PayloadOf(pending.data))
      /\ OnSaveReject
      /\ ev'.ok)
     => (/\ HoldsPayload(store'[EditorKey], PayloadOf(pending.data))
         /\ store'[BackupKey(EditorKey)] = NoItem
         /\ ui'.saveError # ""
         /\ ~ui'.isSaving)]_vars

\* The user has neither edited nor pressed Save.
Untouched ==
  /\ edits = 0
  /\ ui.saveError = ""
  /\ ~ui.isSaving
  /\ ~committed
  /\ ~pending.active

\* C25: while the user leaves the editor untouched no step creates or
\* overwrites 'blog-editor-autosave'.
C25_OnlyEditsWrite ==
  [][(Untouched /\ Untouched')
     => store'[EditorKey] \in {store[EditorKey], NoItem}]_vars

(***************************************************************************)
(* The recorded state and the presentation state of ThemeManager, checked  *)
(* under SpecTheme.                                                        *)
(***************************************************************************)
\* No call of analyzeAndApplyTheme or resetToDefaultTheme is in flight, and
\* at least one was made.
ThemeQuiet ==
  /\ Len(ops) > 0
  /\ \A i \in 1..Len(ops) : ~Running(ops[i])

\* C26: whenever no theme operation is in flight, getState() agrees with
\* the custom properties: accentColors.primary is the value last written
\* to --color-accent-primary, and imageInfluence is true exactly when that
\* value is the palette of an image analysis (false when it is the default
\* palette written by a reset or a fallback).
C26_StateMatchesPresentation ==
  ThemeQuiet =>
    /\ currentState.accentColors.primary = css.accentPrimary
    /\ currentState.imageInfluence
         => \E i \in 1..Len(ops) :
              /\ ops[i].kind = "analyze" /\ ops[i].influence
              /\ ops[i].palette.primary = css.accentPrimary
    /\ ~currentState.imageInfluence
         => css.accentPrimary = defaultAccents.primary

(***************************************************************************)
(* Quantization and the darkening loop, checked under SpecColor.           *)
(***************************************************************************)
Extracted == lab.stage \in {"extracted", "generated", "validated", "fallback"}

SixDigits(colors) ==
  \A i \in 1..Len(colors) : Len(colors[i]) = 6 /\ ~hexToRgbThrows(colors[i])

\* C27: the quantized channels of a pixel lie in 0..255, and every string
\* of the palette extractDominantColors returns is six hex digits that
\* hexToRgb accepts.
C27_QuantizedInRange ==
  Extracted =>
    /\ \A c \in {lab.pixel.r, lab.pixel.g, lab.pixel.b} : Quantize(c) \in 0..255
    /\ lab.e.ok => /\ SixDigits(lab.e.dominant)
                   /\ SixDigits(lab.e.vibrant)
                   /\ SixDigits(lab.e.muted)

\* The primary was handed to adjustColorForContrast.
Adjusted ==
  /\ lab.stage = "validated"
  /\ ~meetsAccessibilityStandards(lab.g.palette.primary, White)

SameNumber(x, y) == x[1] * y[2] = y[1] * x[2]

=============================================================================
